---------------------------- MODULE Spec2Model ----------------------------
(***************************************************************************)
(* Retrieval-augmented answering pipeline of the venue chatbot             *)
(* (src/src/rag/pipeline.py, src/src/embeddings/search_engine.py,          *)
(* src/src/llm/ollama_client.py).                                          *)
(*                                                                         *)
(* Text.  A Python string is modelled as the sequence of its               *)
(* space-separated words: the string is the words joined by single         *)
(* spaces, and an empty word "" stands for one extra blank, so that        *)
(* strip() and split() have something to remove.  Vietnamese words are     *)
(* written in Telex (ASCII) transliteration: "quaanj" is "quận", "caauf    *)
(* giaays" is "cầu giấy", "sao hoar" is "sao hỏa".  Punctuation that is a  *)
(* word of its own ("," ".") is a token of its own.                        *)
(***************************************************************************)
EXTENDS Integers, Sequences, FiniteSets, TLC

(***************************************************************************)
(* Bounds of the model.                                                    *)
(***************************************************************************)
\* longest run of words appended after the district phrase of a query
MaxSuffixLen == 1
\* largest explicit top_k a caller passes (0 stands for None / not given)
MaxTopK == 2

\* how often a host repeats a call of retrieve() with the same arguments
MaxRepeat == 1

\* bits of the significand of the floating-point numbers of the model
\* (53 in a Python float)
MantissaBits == 3

\* number of answer() calls a host runs at the same time on one pipeline
MaxThreads == 2

\* longest model reply, in words, given to the district correction alone
MaxTextLen == 3

(***************************************************************************)
(* Generic helpers on sequences.                                           *)
(***************************************************************************)
RECURSIVE Concat(_)
Concat(ss) == IF ss = <<>> THEN <<>> ELSE Head(ss) \o Concat(Tail(ss))

Min(a, b) == IF a < b THEN a ELSE b

Take(s, n) == SubSeq(s, 1, Min(n, Len(s)))

(***************************************************************************)
(* str.lower(): only the capitalised words below occur in the model.      *)
(***************************************************************************)
LowerMap ==
    [ Quaanj |-> "quaanj", Caauf |-> "caauf", Giaays |-> "giaays",
      Hoanf |-> "hoanf", Kieems |-> "kieems", Sao |-> "sao", Hoar |-> "hoar",
      Hello |-> "hello", Xin |-> "xin", Chaof |-> "chaof", Bar |-> "bar",
      Binh |-> "binh", Dan |-> "dan", Nhaf |-> "nhaf", Hangf |-> "hangf",
      Karaoke |-> "karaoke", Sen |-> "sen", Trawng |-> "trawng",
      Restaurant |-> "restaurant", Goox |-> "goox", District |-> "district",
      CAAUF |-> "caauf", GOOX |-> "goox", Tay |-> "tay", Ho |-> "ho",
      Raats |-> "raats", Khoong |-> "khoong", Hoang |-> "hoang", Kim |-> "kim",
      Taay |-> "taay", Hoof |-> "hoof", Hoofang |-> "hoofang" ]

LowerWord(w) == IF w \in DOMAIN LowerMap THEN LowerMap[w] ELSE w

Lower(s) == [i \in 1..Len(s) |-> LowerWord(s[i])]

\* str.strip(): drop the blanks at both ends
RECURSIVE LStrip(_)
LStrip(s) == IF s # <<>> /\ Head(s) = "" THEN LStrip(Tail(s)) ELSE s

RECURSIVE RStrip(_)
RStrip(s) ==
    IF s # <<>> /\ s[Len(s)] = "" THEN RStrip(SubSeq(s, 1, Len(s) - 1)) ELSE s

Strip(s) == RStrip(LStrip(s))

\* str.split(): the non-blank words
Split(s) == SelectSeq(s, LAMBDA w : w # "")

(***************************************************************************)
(* "kw in text" (substring test).  A one-word keyword is found inside a    *)
(* longer word too: "hàn" is a substring of "hàng".  SubstringOf lists     *)
(* the pairs <<part, word>> of that kind among the words of the model.     *)
(***************************************************************************)
SubstringOf == { <<"hanf", "hangf">> }

InWord(part, w) == part = w \/ <<part, w>> \in SubstringOf

Contains(text, kw) ==
    \E i \in 1..(Len(text) - Len(kw) + 1) :
        \A j \in 1..Len(kw) : InWord(kw[j], text[i + j - 1])

(***************************************************************************)
(* Gazetteers.                                                             *)
(***************************************************************************)
\* pipeline.py: VALID_DISTRICTS of _validate_district_in_query and of
\* _extract_filters_from_query (the two literals denote the same set)
VALID_DISTRICTS ==
  { <<"ba", "ddinhf">>, <<"ba", "dinh">>, <<"hoanf", "kieems">>, <<"hoan", "kiem">>,
    <<"taay", "hoof">>, <<"tay", "ho">>, <<"long", "bieen">>, <<"long", "bien">>,
    <<"caauf", "giaays">>, <<"cau", "giay">>, <<"ddoongs", "dda">>, <<"dong", "da">>,
    <<"hai", "baf", "truwng">>, <<"hai", "ba", "trung">>, <<"hoangf", "mai">>,
    <<"hoang", "mai">>, <<"thanh", "xuaan">>, <<"thanh", "xuan">>, <<"tuwf", "lieem">>,
    <<"tu", "liem">>, <<"nam", "tuwf", "lieem">>, <<"nam", "tu", "liem">>,
    <<"bawcs", "tuwf", "lieem">>, <<"bac", "tu", "liem">>, <<"socs", "sown">>,
    <<"soc", "son">>, <<"ddoong", "anh">>, <<"dong", "anh">>, <<"gia", "laam">>,
    <<"gia", "lam">>, <<"thanh", "trif">>, <<"thanh", "tri">>, <<"haf", "ddoong">>,
    <<"ha", "dong">>, <<"sown", "taay">>, <<"son", "tay">>, <<"ba", "vif">>, <<"ba", "vi">>,
    <<"phucs", "thoj">>, <<"phuc", "tho">>, <<"ddan", "phuwowngj">>, <<"dan", "phuong">>,
    <<"hoaif", "dduwcs">>, <<"hoai", "duc">>, <<"quoocs", "oai">>, <<"quoc", "oai">>,
    <<"thachj", "thaats">>, <<"thach", "that">>, <<"chuwowng", "myx">>, <<"chuong", "my">>,
    <<"thanh", "oai">>, <<"myx", "dduwcs">>, <<"my", "duc">>, <<"uwngs", "hoaf">>,
    <<"ung", "hoa">>, <<"thuwowngf", "tins">>, <<"thuong", "tin">>, <<"phus", "xuyeen">>,
    <<"phu", "xuyen">>, <<"mee", "linh">>, <<"me", "linh">> }

\* search_engine.py: RestaurantSearchEngine.VALID_DISTRICTS
SearchEngine_VALID_DISTRICTS ==
  { <<"ba", "ddinhf">>, <<"ba", "dinh">>, <<"hoanf", "kieems">>, <<"hoan", "kiem">>,
    <<"taay", "hoof">>, <<"tay", "ho">>, <<"long", "bieen">>, <<"long", "bien">>,
    <<"caauf", "giaays">>, <<"cau", "giay">>, <<"ddoongs", "dda">>, <<"dong", "da">>,
    <<"hai", "baf", "truwng">>, <<"hai", "ba", "trung">>, <<"hoangf", "mai">>,
    <<"hoang", "mai">>, <<"thanh", "xuaan">>, <<"thanh", "xuan">>, <<"socs", "sown">>,
    <<"soc", "son">>, <<"ddoong", "anh">>, <<"dong", "anh">>, <<"gia", "laam">>,
    <<"gia", "lam">>, <<"nam", "tuwf", "lieem">>, <<"nam", "tu", "liem">>,
    <<"thanh", "trif">>, <<"thanh", "tri">>, <<"bawcs", "tuwf", "lieem">>,
    <<"bac", "tu", "liem">>, <<"mee", "linh">>, <<"me", "linh">>, <<"haf", "ddoong">>,
    <<"ha", "dong">>, <<"sown", "taay">>, <<"son", "tay">>, <<"ba", "vif">>, <<"ba", "vi">>,
    <<"phucs", "thoj">>, <<"phuc", "tho">>, <<"ddan", "phuwowngj">>, <<"dan", "phuong">>,
    <<"hoaif", "dduwcs">>, <<"hoai", "duc">>, <<"quoocs", "oai">>, <<"quoc", "oai">>,
    <<"thachj", "thaats">>, <<"thach", "that">>, <<"chuwowng", "myx">>, <<"chuong", "my">>,
    <<"thanh", "oai">>, <<"thuwowngf", "tins">>, <<"thuong", "tin">>, <<"phus", "xuyeen">>,
    <<"phu", "xuyen">>, <<"uwngs", "hoaf">>, <<"ung", "hoa">>, <<"myx", "dduwcs">>,
    <<"my", "duc">> }

(***************************************************************************)
(* Keyword tables of the classifier and of the conversational reply.       *)
(***************************************************************************)
restaurant_keywords ==
  { <<"nhaf", "hangf">>, <<"quans", "awn">>, <<"quans">>, <<"bar">>, <<"pub">>, <<"karaoke">>,
    <<"buffet">>, <<"restaurant">>, <<"cafe">>, <<"quans", "cafe">>, <<"awn">>, <<"mons">>,
    <<"ddoof", "awn">>, <<"thuwcs", "awn">>, <<"buwax">>, <<"cowm">>, <<"phowr">>, <<"buns">>,
    <<"mif">>, <<"laaur">>, <<"nuwowngs">>, <<"dimsum">>, <<"quaanj">>, <<"owr", "ddaau">>,
    <<"gaanf">>, <<"phuf", "howpj">>, <<"toots">>, <<"ngon">>, <<"gias", "rer">>,
    <<"binhf", "daan">>, <<"sang", "trongj">>, <<"cao", "caaps">>, <<"trung", "binhf">>,
    <<"gowij", "ys">>, <<"giowis", "thieeuj">>, <<"timf">>, <<"cho", "tooi">>, <<"taay">>,
    <<"ys">>, <<"nhaatj">>, <<"hanf">>, <<"trung">>, <<"vieetj">>, <<"aau">>, <<"as">>,
    <<"caauf", "giaays">>, <<"taay", "hoof">>, <<"hoanf", "kieems">>, <<"ba", "ddinhf">>,
    <<"ddoongs", "dda">>, <<"hai", "baf", "truwng">>, <<"thanh", "xuaan">>,
    <<"long", "bieen">>, <<"hoangf", "mai">> }

greeting_keywords ==
  { <<"xin", "chaof">>, <<"chaof">>, <<"hello">>, <<"hi">>, <<"hey">> }

non_restaurant_keywords ==
  { <<"toans">>, <<"tinhs">>, <<"+">>, <<"-">>, <<"*">>, <<"/">>, <<"bawngf", "maays">>,
    <<"keets", "quar">>, <<"thowif", "tieets">>, <<"trowif">>, <<"nawngs">>, <<"muwa">>,
    <<"nhieetj", "ddooj">>, <<"tin", "tuwcs">>, <<"bongs", "ddas">>, <<"chinhs", "trij">>,
    <<"kinh", "tees">>, <<"lichj", "suwr">>, <<"ddiaj", "lys">>, <<"khoa", "hocj">>,
    <<"vaatj", "lys">>, <<"hoas", "hocj">>, <<"code">>, <<"laapj", "trinhf">>, <<"python">>,
    <<"javascript">> }


(***************************************************************************)
(* Python values.  A str is PyStr(words); None is PyNone.                  *)
(***************************************************************************)
PyStr(words) == [none |-> FALSE, toks |-> words]

PyNone == [none |-> TRUE, toks |-> <<>>]

(***************************************************************************)
(* JSON values and dicts.  A JSON value is [type, val] with val a text; a  *)
(* dict is a function from keys to values.                                 *)
(***************************************************************************)
JBool(b) == [type |-> "bool", val |-> IF b THEN <<"true">> ELSE <<"false">>]

JStr(words) == [type |-> "str", val |-> words]

JNull == [type |-> "null", val |-> <<>>]

JNum(n) == [type |-> "num", val |-> <<n>>]

EmptyDict == [k \in {} |-> JNull]

\* Python truthiness of a JSON value
Truthy(v) ==
    CASE v.type = "null" -> FALSE
      [] v.type = "bool" -> v.val = <<"true">>
      [] v.type = "num"  -> v.val # <<"0">>
      [] OTHER           -> v.val # <<>>

\* dict.get(key, default)
Get(d, k, default) == IF k \in DOMAIN d THEN d[k] ELSE default

(***************************************************************************)
(* The words a model reply can use to spell a JSON member.  A word inside  *)
(* the braces that is not one of these makes json.loads raise.             *)
(***************************************************************************)
JsonPairs ==
    [ w \in { "needs_search:true", "needs_search:false", "needs_search:null",
              "needs_search:'no'", "response_type:greeting",
              "response_type:general_question", "response_type:restaurant_query",
              "response_type:smalltalk", "error:'model_not_found'",
              "district:'Caauf_Giaays'", "district:'_caauf_giaays_'",
              "district:'Sao_Hoar'", "district:'tuwf_lieem'", "district:5",
              "district:null", "business_type:'Bar'", "business_type:'cafe'",
              "price_range:'binh_dan'", "price_range:'Binh_Dan'",
              "price_range:'rer'" } |->
      CASE w = "needs_search:true"  -> <<"needs_search", JBool(TRUE)>>
        [] w = "needs_search:false" -> <<"needs_search", JBool(FALSE)>>
        [] w = "needs_search:null"  -> <<"needs_search", JNull>>
        [] w = "needs_search:'no'"  -> <<"needs_search", JStr(<<"no">>)>>
        [] w = "response_type:greeting" ->
               <<"response_type", JStr(<<"greeting">>)>>
        [] w = "response_type:general_question" ->
               <<"response_type", JStr(<<"general_question">>)>>
        [] w = "response_type:restaurant_query" ->
               <<"response_type", JStr(<<"restaurant_query">>)>>
        [] w = "response_type:smalltalk" ->
               <<"response_type", JStr(<<"smalltalk">>)>>
        [] w = "error:'model_not_found'" ->
               <<"error", JStr(<<"model", "not", "found">>)>>
        [] w = "district:'Caauf_Giaays'" ->
               <<"district", JStr(<<"Caauf", "Giaays">>)>>
        [] w = "district:'_caauf_giaays_'" ->
               <<"district", JStr(<<"", "caauf", "giaays", "">>)>>
        [] w = "district:'Sao_Hoar'" -> <<"district", JStr(<<"Sao", "Hoar">>)>>
        [] w = "district:'tuwf_lieem'" ->
               <<"district", JStr(<<"tuwf", "lieem">>)>>
        [] w = "district:5" -> <<"district", JNum("5")>>
        [] w = "district:null" -> <<"district", JNull>>
        [] w = "business_type:'Bar'" -> <<"business_type", JStr(<<"Bar">>)>>
        [] w = "business_type:'cafe'" -> <<"business_type", JStr(<<"cafe">>)>>
        [] w = "price_range:'binh_dan'" ->
               <<"price_range", JStr(<<"binh_dan">>)>>
        [] w = "price_range:'Binh_Dan'" ->
               <<"price_range", JStr(<<"Binh", "Dan">>)>>
        [] w = "price_range:'rer'" -> <<"price_range", JStr(<<"rer">>)>> ]

\* re.search(r'\{[^}]+\}', text) / re.search(r'\{[^}]*\}', text, re.DOTALL):
\* the leftmost "{" and the first "}" after it.  The braces are words of
\* their own, so at least the blank lies between them and the two patterns
\* match the same texts.
FirstIndex(s, w, from) ==
    IF \E i \in from..Len(s) : s[i] = w
    THEN CHOOSE i \in from..Len(s) :
             s[i] = w /\ \A j \in from..(i - 1) : s[j] # w
    ELSE 0

json_search(text) ==
    LET i == FirstIndex(text, "{", 1)
        j == IF i = 0 THEN 0 ELSE FirstIndex(text, "}", i + 1)
    IN  IF i = 0 \/ j = 0
        THEN [found |-> FALSE, inner |-> <<>>]
        ELSE [found |-> TRUE, inner |-> SubSeq(text, i + 1, j - 1)]

\* json.loads of the matched object: [raised, obj]; a later member with the
\* same key replaces an earlier one
RECURSIVE ObjOf(_)
ObjOf(inner) ==
    IF inner = <<>> THEN EmptyDict
    ELSE LET p == JsonPairs[inner[Len(inner)]]
         IN  (p[1] :> p[2]) @@ ObjOf(SubSeq(inner, 1, Len(inner) - 1))

json_loads(inner) ==
    IF \E i \in 1..Len(inner) : inner[i] \notin DOMAIN JsonPairs
    THEN [raised |-> TRUE, obj |-> EmptyDict]
    ELSE [raised |-> FALSE, obj |-> ObjOf(inner)]

(***************************************************************************)
(* The language-model transport (requests.post in OllamaClient.generate)   *)
(* answers a call with one of these outcomes, whatever the pipeline's      *)
(* ollama_available flag says:                                             *)
(*   ok         status 200, body {"response": <body>}                      *)
(*   null       status 200, body {"response": null}                        *)
(*   http_error status other than 200, <body> is the response text         *)
(*   timeout    requests.exceptions.Timeout                                *)
(*   exception  any other exception (connection refused, bad body)         *)
(***************************************************************************)
Outcome(kind, body) == [kind |-> kind, body |-> body]

ErrorTimeoutText == <<"Error:", "Request", "timeout.", "Please", "try", "again.">>

ErrorExceptionText == <<"Error", "generating", "response:", "Connection", "refused">>

ErrorStatusText(body) == <<"Error:", "500", "-">> \o body

\* OllamaClient.generate: never raises, turns every failure into a text
OllamaClient_generate(o) ==
    CASE o.kind = "ok"         -> PyStr(o.body)
      [] o.kind = "null"       -> PyNone
      [] o.kind = "http_error" -> PyStr(ErrorStatusText(o.body))
      [] o.kind = "timeout"    -> PyStr(ErrorTimeoutText)
      [] OTHER                 -> PyStr(ErrorExceptionText)

\* RAGPipeline._llm_generate
llm_generate(o) == OllamaClient_generate(o)

\* the outcomes of a failed model call
FailOutcomes ==
    { Outcome("timeout", <<>>), Outcome("exception", <<>>),
      Outcome("http_error", <<"{", "error:'model_not_found'", "}">>) }

IsFailure(o) == o.kind \in {"http_error", "timeout", "exception"}


(***************************************************************************)
(* RAGPipeline._validate_district_in_query                                 *)
(*                                                                         *)
(* The pattern                                                             *)
(*   (?:quận|district)\s+([^,\.\?!\n]+?)                                   *)
(*        (?:\s+(?:nhà|quán|bar|restaurant|karaoke|giá|rẻ|sang|$)|$)       *)
(* captures, after an indicator word, the shortest run of one or more      *)
(* words free of punctuation that is followed by a stop word or by the     *)
(* end of the query; re.search takes the leftmost indicator at which such  *)
(* a run exists.                                                           *)
(***************************************************************************)
LocationIndicators == { "quaanj", "district" }

StopWords ==
    { "nhaf", "quans", "bar", "restaurant", "karaoke", "gias", "rer", "sang" }

\* words holding one of the characters , . ? ! or a line break
PunctuationWords == { ",", ".", "?", "!" }

\* length of the capture for the indicator at position i, 0 if none
CaptureLen(ql, i) ==
    LET ok(n) == /\ \A j \in 1..n : ql[i + j] \notin PunctuationWords
                 /\ \/ i + n = Len(ql)
                    \/ ql[i + n + 1] \in StopWords
        ns == { n \in 1..(Len(ql) - i) : ok(n) }
    IN  IF ns = {} THEN 0 ELSE CHOOSE n \in ns : \A m \in ns : n <= m

\* re.search(pattern, query_lower): [found, group1]
district_pattern_search(ql) ==
    LET starts == { i \in 1..Len(ql) :
                      ql[i] \in LocationIndicators /\ CaptureLen(ql, i) > 0 }
    IN  IF starts = {}
        THEN [found |-> FALSE, group1 |-> <<>>]
        ELSE LET i == CHOOSE i \in starts : \A k \in starts : i <= k
             IN  [found |-> TRUE,
                  group1 |-> SubSeq(ql, i + 1, i + CaptureLen(ql, i))]

validate_district_in_query(query) ==
    LET query_lower == Lower(query)
        valid == [is_valid |-> TRUE, invalid_district |-> <<>>]
    IN  IF \E i \in 1..Len(query_lower) :
               \E w \in LocationIndicators : InWord(w, query_lower[i])
        THEN LET match == district_pattern_search(query_lower)
                 district_words == Split(Strip(match.group1))
                 mentioned_district ==
                     IF Len(district_words) > 3
                     THEN Take(district_words, 3)
                     ELSE Strip(match.group1)
             IN  IF /\ match.found
                    /\ mentioned_district # <<>>
                    /\ mentioned_district \notin VALID_DISTRICTS
                 THEN [is_valid |-> FALSE,
                       invalid_district |-> mentioned_district]
                 ELSE valid
        ELSE valid

(***************************************************************************)
(* RAGPipeline._classify_query_with_llm                                    *)
(* Returns [ret, llm]: the classification dict and the number of calls     *)
(* made to the model transport.                                            *)
(***************************************************************************)
RestaurantQuery ==
    ("needs_search" :> JBool(TRUE)) @@
    ("response_type" :> JStr(<<"restaurant_query">>))

GreetingClass ==
    ("needs_search" :> JBool(FALSE)) @@ ("response_type" :> JStr(<<"greeting">>))

has_restaurant_keyword(query) ==
    \E keyword \in restaurant_keywords : Contains(Lower(query), keyword)

is_pure_greeting(query) == Strip(Lower(query)) \in greeting_keywords

\* lines 264-288: the model-assisted verdict and its fallbacks
classify_parse(response) ==
    IF response.none
    THEN RestaurantQuery                   \* re.search(None) raises, caught
    ELSE LET json_match == json_search(response.toks)
             loaded == json_loads(json_match.inner)
         IN  IF ~json_match.found THEN RestaurantQuery
             ELSE IF loaded.raised THEN RestaurantQuery
             ELSE loaded.obj

\* the classifier without the keyword rule of lines 232-234: a venue query
\* is handed to the model like an ambiguous one
classify_without_keyword_rule(available, query, o) ==
    IF ~available
    THEN [ret |-> RestaurantQuery, llm |-> 0]
    ELSE IF is_pure_greeting(query)
    THEN [ret |-> GreetingClass, llm |-> 0]
    ELSE [ret |-> classify_parse(llm_generate(o)), llm |-> 1]

classify_query_with_llm(available, query, o) ==
    IF ~available
    THEN [ret |-> RestaurantQuery, llm |-> 0]
    ELSE IF has_restaurant_keyword(query)
    THEN [ret |-> RestaurantQuery, llm |-> 0]
    ELSE IF is_pure_greeting(query)
    THEN [ret |-> GreetingClass, llm |-> 0]
    ELSE [ret |-> classify_parse(llm_generate(o)), llm |-> 1]

(***************************************************************************)
(* RAGPipeline._generate_conversational_response                           *)
(* The fixed replies are named by their opening words.                     *)
(***************************************************************************)
SearchOnlyGreeting ==
    <<"Xin", "chaof!", "Tooi", "laf", "trowj", "lys", "tuw", "vaans",
      "nhaf", "hangf", "taij", "Haf", "Nooij.">>

OffTopicRefusal ==
    <<"Xin", "looix", "banj,", "tooi", "laf", "chuyeen", "vieen", "tuw", "vaans">>

GreetingReply == <<"Xin", "chaof!", "Tooi", "laf", "trowj", "lys", "AI">>

generate_conversational_response(available, query, response_type, o) ==
    IF ~available
    THEN [ret |-> PyStr(SearchOnlyGreeting), llm |-> 0]
    ELSE IF \E keyword \in non_restaurant_keywords :
                Contains(Lower(query), keyword)
    THEN [ret |-> PyStr(OffTopicRefusal), llm |-> 0]
    ELSE IF response_type = JStr(<<"greeting">>)
    THEN [ret |-> PyStr(GreetingReply), llm |-> 0]
    ELSE [ret |-> llm_generate(o), llm |-> 1]


(***************************************************************************)
(* Filter sets: a dict from the keys district, business_type, price_range  *)
(* to texts.  None and the empty dict are both NoFilters: every use in the *)
(* code ("not filters", "if filters", "filters and ...") treats them       *)
(* alike, and both give where = None.                                      *)
(***************************************************************************)
NoFilters == [k \in {} |-> <<>>]

InvalidDistrictMarker(name) == ("_invalid_district" :> name)

price_map ==
    [ w \in { <<"binh", "dan">>, <<"binh_dan">>, <<"trung", "binh">>,
              <<"trung_binh">>, <<"cao", "cap">>, <<"cao_cap">> } |->
      CASE w \in { <<"binh", "dan">>, <<"binh_dan">> }     -> <<"binh_dan">>
        [] w \in { <<"trung", "binh">>, <<"trung_binh">> } -> <<"trung_binh">>
        [] OTHER                                           -> <<"cao_cap">> ]

BusinessTypes == { <<"restaurant">>, <<"bar">>, <<"karaoke">> }

\* the parsed dict taken as it is: every text field is kept, unvalidated
validate_filters_unchecked(filters) ==
    LET present(k) == k \in DOMAIN filters /\ Truthy(filters[k])
        notstr(k) == present(k) /\ filters[k].type # "str"
        keep(k) == IF present(k) THEN (k :> Strip(filters[k].val)) ELSE NoFilters
    IN  IF notstr("district") \/ notstr("business_type") \/ notstr("price_range")
        THEN [raised |-> TRUE, ret |-> NoFilters]
        ELSE [raised |-> FALSE,
              ret |-> keep("district") @@ keep("business_type")
                      @@ keep("price_range")]

\* lines 481-517: validation of the parsed dict; [raised, ret]
\* (.strip() of a value that is not a str raises AttributeError)
validate_filters(filters) ==
    LET present(k) == k \in DOMAIN filters /\ Truthy(filters[k])
        notstr(k) == present(k) /\ filters[k].type # "str"
        dist == Strip(filters["district"].val)
        btype == Lower(Strip(filters["business_type"].val))
        price == Strip(filters["price_range"].val)
        d == IF present("district") /\ Lower(dist) \in VALID_DISTRICTS
             THEN ("district" :> dist) ELSE NoFilters
        b == IF present("business_type") /\ btype \in BusinessTypes
             THEN ("business_type" :> btype) ELSE NoFilters
        pr == IF present("price_range") /\ Lower(price) \in DOMAIN price_map
              THEN ("price_range" :> price_map[Lower(price)]) ELSE NoFilters
    IN  IF notstr("district") \/ notstr("business_type") \/ notstr("price_range")
        THEN [raised |-> TRUE, ret |-> NoFilters]
        ELSE [raised |-> FALSE, ret |-> d @@ b @@ pr]

\* lines 450-523: the model's reply turned into a filter set
extract_parse(response) ==
    IF response.none
    THEN NoFilters                         \* re.search(None) raises, caught
    ELSE LET json_match == json_search(response.toks)
             loaded == json_loads(json_match.inner)
         IN  IF ~json_match.found THEN NoFilters
             ELSE IF loaded.raised THEN NoFilters
             ELSE IF validate_filters(loaded.obj).raised THEN NoFilters
             ELSE validate_filters(loaded.obj).ret

(***************************************************************************)
(* RAGPipeline._extract_filters_from_query: [ret, llm]                     *)
(***************************************************************************)
extract_filters_from_query(available, query, o) ==
    IF ~available
    THEN [ret |-> NoFilters, llm |-> 0]
    ELSE IF ~validate_district_in_query(query).is_valid
    THEN [ret |-> InvalidDistrictMarker(
                      validate_district_in_query(query).invalid_district),
          llm |-> 0]
    ELSE [ret |-> extract_parse(llm_generate(o)), llm |-> 1]

(***************************************************************************)
(* The vector index (ChromaDB collection "restaurants").  A document is    *)
(* its metadata and its distance to the query embedding; the collection    *)
(* is kept in a variable and is not changed by any operation.  The         *)
(* comma-separated cuisine_type string is the sequence of its items.       *)
(***************************************************************************)
Doc(id, name, btype, district, price, cuisine, distance) ==
    [ id |-> id, name |-> name, business_type |-> btype, district |-> district,
      price_range |-> price, phone |-> <<"0913515351">>,
      address |-> <<"17T9">> \o district, url |-> <<"https://topgo.vn/">> \o id,
      cuisine_type |-> cuisine, features |-> <<>>, distance |-> distance ]

DocSen(d) ==
    Doc(<<"r1">>, <<"Nhaf", "Hangf", "Sen">>, <<"restaurant">>,
        <<"Caauf", "Giaays">>, <<"binh_dan">>, << <<"Vieetj">>, <<"", "AAu">> >>, d)

DocTrawng(d) ==
    Doc(<<"r2">>, <<"Bar", "Trawng">>, <<"bar">>, <<"Hoanf", "Kieems">>,
        <<"cao_cap">>, <<>>, d)

DocSao(d) ==
    Doc(<<"r3">>, <<"Karaoke", "Sao">>, <<"karaoke">>, <<"Caauf", "Giaays">>,
        <<"trung_binh">>, << <<"">>, <<>> >>, d)

\* the collections the index may hold
Collections ==
    { << DocSen(0), DocTrawng(1), DocSao(3) >>,
      << DocSao(1), DocSen(1), DocTrawng(2) >> }

\* where clause of ChromaDB: no constraint (None), one key = value mapping
\* passed directly, or the $and of several; a document matches when its
\* metadata satisfies every condition
MetadataKeys == { "name", "business_type", "district", "price_range" }

Matches(doc, where) ==
    \A k \in DOMAIN where.conds :
        k \in MetadataKeys /\ doc[k] = where.conds[k]

\* collection.query(query_embeddings, n_results, where): the n_results
\* matching documents nearest to the query, nearest first (ties keep the
\* order of the collection)
RECURSIVE InsertByDistance(_, _)
InsertByDistance(doc, sorted) ==
    IF sorted = <<>> THEN <<doc>>
    ELSE IF doc.distance < Head(sorted).distance THEN <<doc>> \o sorted
    ELSE <<Head(sorted)>> \o InsertByDistance(doc, Tail(sorted))

RECURSIVE SortByDistance(_)
SortByDistance(docs) ==
    IF docs = <<>> THEN <<>>
    ELSE InsertByDistance(docs[Len(docs)],
                          SortByDistance(SubSeq(docs, 1, Len(docs) - 1)))

\* a query that consumes the nearest document it has read
index_after_destructive_query(coll) ==
    IF coll = <<>> THEN coll ELSE Tail(SortByDistance(coll))

\* the index after collection.query: the query only reads it
index_after_query(coll) == coll

collection_query(coll, n_results, where) ==
    Take(SortByDistance(SelectSeq(coll, LAMBDA doc : Matches(doc, where))),
         n_results)


(***************************************************************************)
(* Python floats.  A float is [m, e], the number m * 2^e, with a           *)
(* significand m of MantissaBits bits (or m = 0); every operation rounds   *)
(* its exact result to the nearest float, ties to the even significand.    *)
(* Exponents are not bounded: the distances of the model stay far from     *)
(* overflow and underflow.                                                 *)
(***************************************************************************)
Float(m, e) == [m |-> m, e |-> e]

RECURSIVE BitLen(_)
BitLen(n) == IF n = 0 THEN 0 ELSE 1 + BitLen(n \div 2)

\* the float nearest to n * 2^e
RECURSIVE RoundToFloat(_, _)
RoundToFloat(n, e) ==
    IF n = 0 THEN Float(0, 0)
    ELSE IF BitLen(n) < MantissaBits THEN RoundToFloat(2 * n, e - 1)
    ELSE IF BitLen(n) = MantissaBits THEN Float(n, e)
    ELSE LET k == BitLen(n) - MantissaBits
             q == n \div (2 ^ k)
             r == n % (2 ^ k)
             half == 2 ^ (k - 1)
             up == r > half \/ (r = half /\ q % 2 = 1)
         IN  IF ~up THEN Float(q, e + k)
             ELSE IF q + 1 = 2 ^ MantissaBits
             THEN Float(2 ^ (MantissaBits - 1), e + k + 1)
             ELSE Float(q + 1, e + k)

FloatOfInt(n) == RoundToFloat(n, 0)

\* a + b
float_add(a, b) ==
    LET emin == Min(a.e, b.e)
    IN  RoundToFloat(a.m * 2 ^ (a.e - emin) + b.m * 2 ^ (b.e - emin), emin)

\* 1 / x for x > 0: the quotient is taken with spare bits, the last of them
\* telling whether the division left a remainder
float_reciprocal(x) ==
    LET g == 2 * MantissaBits + 2
        quotient == (2 ^ g) \div x.m
        sticky == IF (2 ^ g) % x.m = 0 THEN 0 ELSE 1
    IN  RoundToFloat(2 * quotient + sticky, 0 - x.e - g - 1)

\* a < b, a <= b
float_lt(a, b) ==
    LET emin == Min(a.e, b.e)
    IN  a.m * 2 ^ (a.e - emin) < b.m * 2 ^ (b.e - emin)

float_le(a, b) == a = b \/ float_lt(a, b)

\* the score taken to be the distance itself
similarity_is_distance(distance) == distance

\* line 148: similarity = 1 / (1 + distance)
similarity(distance) == float_reciprocal(float_add(FloatOfInt(1), distance))

(***************************************************************************)
(* RestaurantSearchEngine.search                                           *)
(* idx is what the index transport does with the query: "ok" or "raise"    *)
(* (index unreachable, embedding or query failing).  Returns               *)
(* [raised, ret, queried, where, n_results]: queried tells whether         *)
(* collection.query was called, where is the filter it was given and       *)
(* n_results the result count search() was called with.                    *)
(***************************************************************************)
\* one formatted result, ranked from 0 as enumerate() counts
format_result_zero_based(doc, i) ==
    [ id |-> doc.id, name |-> doc.name, business_type |-> doc.business_type,
      district |-> doc.district, price_range |-> doc.price_range,
      phone |-> doc.phone, address |-> doc.address, url |-> doc.url,
      cuisine_type |-> SelectSeq([j \in 1..Len(doc.cuisine_type) |->
                                     Strip(doc.cuisine_type[j])],
                                 LAMBDA c : c # <<>>),
      features |-> doc.features,
      similarity_score |-> similarity(FloatOfInt(doc.distance)),
      rank |-> i - 1 ]

\* lines 143-178: one formatted result
format_result(doc, i) ==
    [ id |-> doc.id, name |-> doc.name, business_type |-> doc.business_type,
      district |-> doc.district, price_range |-> doc.price_range,
      phone |-> doc.phone, address |-> doc.address, url |-> doc.url,
      cuisine_type |-> SelectSeq([j \in 1..Len(doc.cuisine_type) |->
                                     Strip(doc.cuisine_type[j])],
                                 LAMBDA c : c # <<>>),
      features |-> doc.features,
      similarity_score |-> similarity(FloatOfInt(doc.distance)),
      rank |-> i ]

\* the check of lines 87-95 left out: any district is forwarded
district_filter_unchecked(filters) == TRUE

\* lines 87-95: the district filter is checked against the gazetteer
district_filter_valid(filters) ==
    "district" \in DOMAIN filters =>
        Strip(Lower(filters["district"])) \in SearchEngine_VALID_DISTRICTS

\* the where clause built from one key only, whatever the number of keys
where_clause_one_key(filters) ==
    IF filters = NoFilters THEN [op |-> "None", conds |-> NoFilters]
    ELSE LET k == CHOOSE key \in DOMAIN filters : key # "business_type"
                                                   \/ DOMAIN filters = {key}
         IN  [op |-> "direct", conds |-> (k :> filters[k])]

\* lines 100-112
where_clause(filters) ==
    IF filters = NoFilters THEN [op |-> "None", conds |-> NoFilters]
    ELSE IF Cardinality(DOMAIN filters) = 1
    THEN [op |-> "direct", conds |-> filters]
    ELSE [op |-> "$and", conds |-> filters]

NoQuery == [op |-> "not queried", conds |-> NoFilters]

\* the index after a call of search() with outcome r
IndexAfter(coll, r) ==
    IF r.queried /\ ~r.raised THEN index_after_query(coll) ELSE coll

search(coll, query, n_results, filters, idx) ==
    IF ~district_filter_valid(filters)
    THEN [raised |-> FALSE, ret |-> <<>>, queried |-> FALSE, where |-> NoQuery,
          n_results |-> n_results]
    ELSE IF idx = "raise"
    THEN [raised |-> TRUE, ret |-> <<>>, queried |-> TRUE,
          where |-> where_clause(filters), n_results |-> n_results]
    ELSE LET results == collection_query(coll, n_results, where_clause(filters))
         IN  [raised |-> FALSE,
              ret |-> [i \in 1..Len(results) |-> format_result(results[i], i)],
              queried |-> TRUE, where |-> where_clause(filters),
              n_results |-> n_results]

(***************************************************************************)
(* RAGPipeline.retrieve (top_k = 0 stands for None; "top_k or default"     *)
(* treats 0 and None alike)                                                *)
(***************************************************************************)
search_top_k == 5

\* retrieve that always asks for the configured number of results
retrieve_default_count(coll, query, filters, top_k, idx) ==
    search(coll, query, search_top_k, filters, idx)

retrieve(coll, query, filters, top_k, idx) ==
    LET k == IF top_k # 0 THEN top_k ELSE search_top_k
    IN  search(coll, query, k, filters, idx)

(***************************************************************************)
(* RAGPipeline._format_search_only_response                                *)
(***************************************************************************)
SearchOnlyNotFound ==
    <<"Khoong", "timf", "thaays", "ddiaj", "ddieemr", "phuf", "howpj", "vowis",
      "yeeu", "caauf", "cuar", "banj.">>

\* str.title() and str.replace('_', ' ').title() on the values of the index
Title(text) ==
    CASE text = <<"restaurant">> -> <<"Restaurant">>
      [] text = <<"bar">>        -> <<"Bar">>
      [] text = <<"karaoke">>    -> <<"Karaoke">>
      [] text = <<"binh_dan">>   -> <<"Binh", "Dan">>
      [] text = <<"trung_binh">> -> <<"Trung", "Binh">>
      [] text = <<"cao_cap">>    -> <<"Cao", "Cap">>
      [] OTHER                   -> text

RECURSIVE JoinComma(_)
JoinComma(items) ==
    IF items = <<>> THEN <<>>
    ELSE IF Len(items) = 1 THEN items[1]
    ELSE items[1] \o <<",">> \o JoinComma(Tail(items))

format_entry(resto, i) ==
    <<ToString(i), ".">> \o resto.name \o <<"\n">>
    \o <<"-", "Loaij:">> \o Title(resto.business_type) \o <<"\n">>
    \o <<"-", "Quaanj:">> \o resto.district \o <<"\n">>
    \o <<"-", "Gias:">> \o Title(resto.price_range) \o <<"\n">>
    \o <<"-", "SDdT:">> \o resto.phone \o <<"\n">>
    \o <<"-", "Ddiaj", "chir:">> \o resto.address \o <<"\n">>
    \o (IF JoinComma(SelectSeq(resto.cuisine_type, LAMBDA c : c # <<>>)) # <<>>
        THEN <<"-", "Aamr", "thuwcj:">>
             \o JoinComma(SelectSeq(resto.cuisine_type, LAMBDA c : c # <<>>))
             \o <<"\n">>
        ELSE <<>>)
    \o <<"\n">>

format_search_only_response(restaurants) ==
    IF restaurants = <<>>
    THEN SearchOnlyNotFound
    ELSE <<"Timf", "thaays", ToString(Len(restaurants)), "ddiaj", "ddieemr",
           "phuf", "howpj:", "\n", "\n">>
         \o Concat([i \in 1..Len(restaurants) |->
                       format_entry(restaurants[i], i)])


(***************************************************************************)
(* RAGPipeline.generate: [raised, ret, llm]                                *)
(***************************************************************************)
GenerateNotFound ==
    <<"Raats", "tieecs,", "tooi", "khoong", "timf", "thaays", "ddiaj", "ddieemr",
      "naof", "phuf", "howpj">>

\* the table of known misspellings, in the order of the dict literal
district_corrections ==
    << <<<<"hoangf", "kim">>, <<"Hoanf", "Kieems">>>>,
       <<<<"hoang", "kim">>, <<"Hoanf", "Kieems">>>>,
       <<<<"caauf", "goox">>, <<"Caauf", "Giaays">>>>,
       <<<<"cau", "go">>, <<"Caauf", "Giaays">>>>,
       <<<<"caauf", "giaayf">>, <<"Caauf", "Giaays">>>>,
       <<<<"taay", "hoo">>, <<"Taay", "Hoof">>>>,
       <<<<"tay", "ho">>, <<"Taay", "Hoof">>>>,
       <<<<"ddoongf", "dda">>, <<"Ddoongs", "Dda">>>>,
       <<<<"dong", "da">>, <<"Ddoongs", "Dda">>>> >>

negative_phrases ==
    << <<"Raats", "tieecs,", "tooi", "khoong", "timf", "thaays">>,
       <<"Xin", "looix,", "khoong", "timf", "thaays">>,
       <<"Khoong", "timf", "thaays", "ddiaj", "ddieemr", "phuf", "howpj">> >>

\* position of the first occurrence of the phrase in the text, 0 if none
Find(text, phrase) ==
    LET at == { i \in 1..(Len(text) - Len(phrase) + 1) :
                  SubSeq(text, i, i + Len(phrase) - 1) = phrase }
    IN  IF at = {} THEN 0 ELSE CHOOSE i \in at : \A k \in at : i <= k

\* Words that begin with a shorter word of the table: the word is its
\* first part followed, without a blank, by its second.  "wrong in
\* response_lower" and the pattern of re.sub look for characters, so they
\* find a misspelling whose last word is the beginning of a longer word.
Glued ==
    [ w \in { "Hoang", "hoang" } |->
        IF w = "Hoang" THEN <<"Ho", "ang">> ELSE <<"ho", "ang">> ]

\* the word made of a word and the rest of the word it replaced a part of
GluedTo(w, rest) ==
    CASE w = "Hoof" /\ rest = "ang" -> "Hoofang"

\* how the phrase matches at the head of the text, letter case ignored:
\* "exact", "glued" (its last word is the beginning of the text's word) or
\* "no"
MatchAtHead(text, phrase) ==
    LET n == Len(phrase)
    IN  IF Len(text) < n \/ n = 0 THEN "no"
        ELSE IF \E j \in 1..(n - 1) : LowerWord(text[j]) # phrase[j] THEN "no"
        ELSE IF LowerWord(text[n]) = phrase[n] THEN "exact"
        ELSE IF text[n] \in DOMAIN Glued /\ LowerWord(Glued[text[n]][1]) = phrase[n]
        THEN "glued"
        ELSE "no"

\* wrong in response_lower
Occurs(text, phrase) ==
    \E i \in 1..Len(text) :
        MatchAtHead(SubSeq(text, i, Len(text)), phrase) # "no"

\* the substitution without re.IGNORECASE: only the lower-case spelling
\* is replaced
RECURSIVE SubCaseSensitive(_, _, _)
SubCaseSensitive(text, wrong, correct) ==
    IF Len(text) < Len(wrong) THEN text
    ELSE IF SubSeq(text, 1, Len(wrong)) = wrong
    THEN correct \o SubCaseSensitive(SubSeq(text, Len(wrong) + 1, Len(text)),
                                     wrong, correct)
    ELSE <<Head(text)>> \o SubCaseSensitive(Tail(text), wrong, correct)

\* re.compile(re.escape(wrong), re.IGNORECASE).sub(correct, text)
RECURSIVE SubIgnoreCase(_, _, _)
SubIgnoreCase(text, wrong, correct) ==
    LET n == Len(wrong)
        after == SubSeq(text, n + 1, Len(text))
    IN  IF Len(text) < n THEN text
        ELSE IF MatchAtHead(text, wrong) = "exact"
        THEN correct \o SubIgnoreCase(after, wrong, correct)
        ELSE IF MatchAtHead(text, wrong) = "glued"
        THEN SubSeq(correct, 1, Len(correct) - 1)
             \o << GluedTo(correct[Len(correct)], Glued[text[n]][2]) >>
             \o SubIgnoreCase(after, wrong, correct)
        ELSE <<Head(text)>> \o SubIgnoreCase(Tail(text), wrong, correct)

\* lines 151-177: the loop over the table, entries 1..n applied in order;
\* response_lower is computed once, before the loop
RECURSIVE correct_districts(_, _, _, _)
correct_districts(response, response_lower, actual_districts, n) ==
    IF n = 0 THEN response
    ELSE LET before == correct_districts(response, response_lower,
                                         actual_districts, n - 1)
             wrong == district_corrections[n][1]
             correct == district_corrections[n][2]
         IN  IF Occurs(response_lower, wrong) /\ correct \in actual_districts
             THEN SubIgnoreCase(before, wrong, correct)
             ELSE before

\* len(text): characters of the words plus the blanks between them.  The
\* lengths are those of the Vietnamese words, not of their transliteration;
\* IntroductionOf101Characters stands for an opening passage of that length.
WordLen(w) ==
    CASE w \in { "" } -> 0
      [] w \in { ",", ".", "-", "{", "}", "owr" } -> 1
      [] w \in { "ys:", "Goox", "GOOX", "goox", "gif", "vaf", "Ho", "Hoof" } -> 2
      [] w \in { "Gowij", "Nhaf", "Sen", "Caauf", "CAAUF", "caauf", "Xin",
                 "timf", "try", "500", "Tay", "Taay", "tooi", "Kim" } -> 3
      [] w \in { "Hangf", "Giaays", "looix,", "thaays", "Hoanf", "Kieems",
                 "Raats" } -> 4
      [] w \in { "khoong", "Error", "tieecs,", "Hoang", "hoang", "Hoofang" } -> 5
      [] w \in { "Error:", "Please", "again." } -> 6
      [] w \in { "Request", "refused" } -> 7
      [] w \in { "timeout." } -> 8
      [] w \in { "response:" } -> 9
      [] w \in { "generating", "Connection" } -> 10
      [] w \in { "error:'model_not_found'" } -> 25
      [] w \in { "IntroductionOf101Characters" } -> 101

RECURSIVE CharLen(_)
CharLen(text) ==
    IF text = <<>> THEN 0
    ELSE IF Len(text) = 1 THEN WordLen(text[1])
    ELSE WordLen(Head(text)) + 1 + CharLen(Tail(text))

\* lines 179-190: the loop over the phrases, 1..n applied in order
RECURSIVE suppress_not_found(_, _)
suppress_not_found(response, n) ==
    IF n = 0 THEN response
    ELSE LET before == suppress_not_found(response, n - 1)
             phrase == negative_phrases[n]
         IN  IF Find(before, phrase) # 0
             THEN Strip(SubSeq(before, 1, Find(before, phrase) - 1))
             ELSE before

post_process(response, context_restaurants) ==
    LET actual_districts == { context_restaurants[i].district :
                                i \in 1..Len(context_restaurants) }
        corrected == IF context_restaurants # <<>>
                     THEN correct_districts(response, Lower(response),
                                            actual_districts,
                                            Len(district_corrections))
                     ELSE response
    IN  IF context_restaurants # <<>> /\ CharLen(corrected) > 100
        THEN suppress_not_found(corrected, Len(negative_phrases))
        ELSE corrected

\* generate without the guard of lines 129-138: an empty venue list is
\* sent to the model like any other
generate_without_empty_guard(available, query, context_restaurants, o) ==
    IF ~available
    THEN [raised |-> FALSE, llm |-> 0,
          ret |-> PyStr(format_search_only_response(context_restaurants))]
    ELSE LET response == llm_generate(o)
         IN  IF response.none
             THEN [raised |-> TRUE, llm |-> 1, ret |-> PyNone]
             ELSE [raised |-> FALSE, llm |-> 1,
                   ret |-> PyStr(post_process(response.toks,
                                              context_restaurants))]

\* generate without the guard of lines 125-127: the model is called even
\* when it was found unavailable at construction
generate_without_availability_guard(available, query, context_restaurants, o) ==
    IF context_restaurants = <<>>
    THEN [raised |-> FALSE, llm |-> 0, ret |-> PyStr(GenerateNotFound)]
    ELSE LET response == llm_generate(o)
         IN  IF response.none
             THEN [raised |-> TRUE, llm |-> 1, ret |-> PyNone]
             ELSE [raised |-> FALSE, llm |-> 1,
                   ret |-> PyStr(post_process(response.toks,
                                              context_restaurants))]

\* generate that asks the model a second time when the call failed
generate_with_retry(available, query, context_restaurants, o) ==
    IF ~available
    THEN [raised |-> FALSE, llm |-> 0,
          ret |-> PyStr(format_search_only_response(context_restaurants))]
    ELSE IF context_restaurants = <<>>
    THEN [raised |-> FALSE, llm |-> 0, ret |-> PyStr(GenerateNotFound)]
    ELSE LET response == llm_generate(o)
             calls_made == IF IsFailure(o) THEN 2 ELSE 1
         IN  IF response.none
             THEN [raised |-> TRUE, llm |-> calls_made, ret |-> PyNone]
             ELSE [raised |-> FALSE, llm |-> calls_made,
                   ret |-> PyStr(post_process(response.toks,
                                              context_restaurants))]

\* lines 105-192; llm counts the calls of _llm_generate (line 144)
generate(available, query, context_restaurants, o) ==
    IF ~available
    THEN [raised |-> FALSE, llm |-> 0,
          ret |-> PyStr(format_search_only_response(context_restaurants))]
    ELSE IF context_restaurants = <<>>
    THEN [raised |-> FALSE, llm |-> 0, ret |-> PyStr(GenerateNotFound)]
    ELSE LET response == llm_generate(o)
         IN  IF response.none
             THEN [raised |-> TRUE, llm |-> 1, ret |-> PyNone]
             ELSE [raised |-> FALSE, llm |-> 1,
                   ret |-> PyStr(post_process(response.toks,
                                              context_restaurants))]


(***************************************************************************)
(* RAGPipeline.answer, the parts that are expressions of the code          *)
(***************************************************************************)
\* the test of line 554 left out: every query is taken to need retrieval
needs_search_ignored(classification) == TRUE

\* line 554: not classification.get('needs_search', True)
needs_search(classification) ==
    Truthy(Get(classification, "needs_search", JBool(TRUE)))

\* the two tests in the other order: filters are extracted before the
\* classification is looked at
after_classify_extracts_first(classification, filters) ==
    IF filters = NoFilters THEN "extract"
    ELSE IF ~needs_search(classification) THEN "converse"
    ELSE "retrieve"

\* lines 554 and 567: where answer() goes on after the classification
after_classify(classification, filters) ==
    IF ~needs_search(classification) THEN "converse"
    ELSE IF filters = NoFilters THEN "extract"
    ELSE "retrieve"

\* the check of line 572 left out: the marker is taken for a filter set
is_invalid_marker_unchecked(filters) == FALSE

\* line 572: filters and '_invalid_district' in filters
is_invalid_marker(filters) ==
    filters # NoFilters /\ "_invalid_district" \in DOMAIN filters

\* line 575
InvalidDistrictMessage(invalid_district) ==
    <<"Xin", "looix,", "quaanj">> \o invalid_district
    \o <<"khoong", "toonf", "taij", "taij", "Haf", "Nooij.">>

\* the dict returned by answer(); sources_kind tells a list from None
\* (return_sources false at lines 563, 580) and from a missing key (611)
Result(q, answer, n, sources, kind) ==
    [ query |-> q, answer |-> answer, num_sources |-> n, sources |-> sources,
      sources_kind |-> kind ]

NoResult == Result(<<>>, PyNone, -1, <<>>, "no result")

\* lines 559-564 and 576-581
ZeroSources(q, answer, rs) ==
    Result(q, answer, 0, <<>>, IF rs THEN "list" ELSE "None")

\* line 643-644 of chat(): the dict {'error': ...}
ChatError == Result(<<>>, PyNone, -1, <<>>, "error")

\* the keys of the dict a call returned
result_keys(r) ==
    CASE r.sources_kind \in { "list", "None" } ->
             { "query", "answer", "num_sources", "sources" }
      [] r.sources_kind = "absent" -> { "query", "answer", "num_sources" }
      [] r.sources_kind = "error" -> { "error" }
      [] OTHER -> {}

\* the result built from the first venue only
BuildResultFirstOnly(q, answer, found, rs) ==
    Result(q, answer, Len(found), IF rs THEN Take(found, 1) ELSE <<>>,
           IF rs THEN "list" ELSE "absent")

\* lines 604-614
BuildResult(q, answer, found, rs) ==
    Result(q, answer, Len(found), IF rs THEN found ELSE <<>>,
           IF rs THEN "list" ELSE "absent")

(***************************************************************************)
(* One activation of answer(): the arguments it was called with (args),   *)
(* its locals, the responses its collaborators gave it (heard) and the     *)
(* fields of the pipeline as they were when it was called (at_start).      *)
(* overlapped tells that the call took a step while another call was in    *)
(* progress.                                                               *)
(***************************************************************************)
Threads == 1..MaxThreads

IdleCall ==
    [ pc |-> "idle", args |-> <<>>, query |-> <<>>, filters |-> NoFilters,
      top_k |-> 0,
      return_sources |-> TRUE, classification |-> EmptyDict,
      restaurants |-> <<>>, result |-> NoResult, terminal |-> "none",
      heard |-> <<>>, at_start |-> <<>>, overlapped |-> FALSE ]

StartCall(in, available, coll) ==
    [ IdleCall EXCEPT !.pc = "classify", !.args = in, !.query = in[1],
                      !.filters = in[2],
                      !.top_k = in[3], !.return_sources = in[4],
                      !.at_start = <<available, coll>> ]

\* a collaborator the step did not consult
Silent == Outcome("not called", <<>>)

IndexOutcome(idx) == Outcome(idx, <<>>)

\* a pipeline that gives up on the model after a failed call
available_cleared_on_failure(available, o) == available /\ ~IsFailure(o)

\* self.ollama_available after a step of answer(): it is assigned at lines
\* 51 and 54 of __init__ only
available_after_call(available, o) == available

\* the next step of answer() for the call c, the collaborator answering o
answer_step(c, available, coll, o) ==
    CASE c.pc = "classify" ->
           LET r == classify_query_with_llm(available, c.query, o)
           IN  [ c EXCEPT
                   !.classification = r.ret,
                   !.pc = after_classify(r.ret, c.filters),
                   !.heard = Append(@, IF r.llm = 0 THEN Silent ELSE o) ]
      [] c.pc = "converse" ->
           LET response_type ==
                   Get(c.classification, "response_type", JStr(<<"greeting">>))
               r == generate_conversational_response(available, c.query,
                                                     response_type, o)
           IN  [ c EXCEPT
                   !.result = ZeroSources(c.query, r.ret, c.return_sources),
                   !.terminal = "ConversationalReply",
                   !.pc = "done",
                   !.heard = Append(@, IF r.llm = 0 THEN Silent ELSE o) ]
      [] c.pc = "extract" ->
           LET r == extract_filters_from_query(available, c.query, o)
               heard == Append(c.heard, IF r.llm = 0 THEN Silent ELSE o)
           IN  IF is_invalid_marker(r.ret)
               THEN [ c EXCEPT
                        !.filters = r.ret,
                        !.result = ZeroSources(c.query,
                            PyStr(InvalidDistrictMessage(
                                      r.ret["_invalid_district"])),
                            c.return_sources),
                        !.terminal = "InvalidLocationReply",
                        !.pc = "done",
                        !.heard = heard ]
               ELSE [ c EXCEPT !.filters = r.ret, !.pc = "retrieve",
                               !.heard = heard ]
      [] c.pc = "retrieve" ->
           LET r == retrieve(coll, c.query, c.filters, c.top_k, o.kind)
               heard == Append(c.heard, IF r.queried THEN o ELSE Silent)
           IN  IF r.raised
               THEN [ c EXCEPT !.terminal = "raised", !.pc = "done",
                               !.heard = heard ]
               ELSE [ c EXCEPT !.restaurants = r.ret, !.pc = "generate",
                               !.heard = heard ]
      [] c.pc = "generate" ->
           LET r == generate(available, c.query, c.restaurants, o)
               answer == IF available /\ ~r.raised
                         THEN r.ret
                         ELSE PyStr(format_search_only_response(c.restaurants))
           IN  [ c EXCEPT
                   !.result = BuildResult(c.query, answer, c.restaurants,
                                          c.return_sources),
                   !.terminal = "Answered",
                   !.pc = "done",
                   !.heard = Append(@, IF available /\ r.llm = 1
                                       THEN o ELSE Silent) ]
      [] OTHER -> c

\* the call c run by itself on a pipeline with the fields at_start, its
\* collaborators giving the responses of heard in turn
RECURSIVE run_alone(_, _, _)
run_alone(c, at_start, heard) ==
    IF heard = <<>> \/ c.pc \in { "idle", "done" } THEN c
    ELSE run_alone(answer_step(c, at_start[1], at_start[2], Head(heard)),
                   at_start, Tail(heard))

(***************************************************************************)
(* Inputs of the model.                                                    *)
(***************************************************************************)
SuffixWords == { "cos", "nhaf", "," }

Suffixes == UNION { [1..n -> SuffixWords] : n \in 0..MaxSuffixLen }

Prefixes == { <<>>, <<"nhaf", "hangf">> }

IndicatorWords == { "quaanj", "Quaanj", "district" }

DistrictPhrases ==
    { <<"Caauf", "Giaays">>, <<"Sao", "Hoar">>, <<"tuwf", "lieem">>, <<"99">> }

\* queries naming a district: [prefix] indicator phrase [suffix]
LocationQueries ==
    { p \o <<i>> \o d \o s :
        p \in Prefixes, i \in IndicatorWords, d \in DistrictPhrases,
        s \in Suffixes }

OtherQueries ==
    { <<"xin", "chaof">>, <<"Hello", "">>, <<"hi">>, <<"banj", "laf", "ai">>,
      <<"code", "python">>, <<"nhaf", "hangf", "ngon">>,
      <<"bar", "owr", "Hoanf", "Kieems">>,
      <<"quaanj", "Sao", ",", "quaanj", "Caauf", "Giaays">> }

Queries == LocationQueries \cup OtherQueries

\* queries tried with every combination of the other arguments
CoreQueries ==
    { <<"nhaf", "hangf", "ngon">>, <<"xin", "chaof">>, <<"banj", "laf", "ai">>,
      <<"nhaf", "hangf", "quaanj", "Sao", "Hoar">>,
      <<"bar", "quaanj", "Caauf", "Giaays">> }

CallerFilters ==
    { NoFilters,
      ("district" :> <<"Caauf", "Giaays">>),
      ("district" :> <<"Sao", "Hoar">>),
      ("district" :> <<"tuwf", "lieem">>),
      ("district" :> <<"", "caauf", "giaays">>),
      ("business_type" :> <<"bar">>),
      ("price_range" :> <<"Binh", "Dan">>),
      ("district" :> <<"Caauf", "Giaays">>) @@ ("business_type" :> <<"karaoke">>) }

TopKs == 0..MaxTopK

AnswerInputs ==
    (Queries \X {NoFilters} \X {0} \X {TRUE})
    \cup (CoreQueries \X CallerFilters \X {0} \X {TRUE})
    \cup (CoreQueries \X {NoFilters, ("business_type" :> <<"bar">>)}
             \X TopKs \X BOOLEAN)

\* conversation histories given to chat(), with its filters and top_k
Message(role, content) == ("role" :> role) @@ ("content" :> content)

ChatInputs ==
    { << <<>>, NoFilters, 0 >>,
      << << Message("assistant", <<"xin", "chaof">>) >>, NoFilters, 0 >>,
      << << Message("user", <<"nhaf", "hangf", "ngon">>) >>, NoFilters, 0 >>,
      << << Message("user", <<"xin", "chaof">>),
            Message("assistant", <<"Xin", "chaof!">>),
            Message("user", <<"bar", "quaanj", "Caauf", "Giaays">>),
            Message("system", <<"hi">>) >>, NoFilters, 2 >>,
      << << Message("user", <<"nhaf", "hangf", "quaanj", "Sao", "Hoar">>) >>,
         NoFilters, 0 >>,
      << << ("role" :> "user") >>, ("business_type" :> <<"bar">>), 0 >> }

\* replies of the model
ClassifyReplies ==
    { <<"{", "needs_search:false", "response_type:general_question", "}">>,
      <<"{", "needs_search:false", "response_type:greeting", "}">>,
      <<"{", "needs_search:true", "response_type:restaurant_query", "}">>,
      <<"Sure:", "{", "needs_search:false", "response_type:smalltalk", "}", "ok">>,
      <<"{", "needs_search:null", "}">>,
      <<"{", "needs_search:'no'", "response_type:greeting", "}">>,
      <<"{", "response_type:greeting", "}">>,
      <<"{", "needs_search:false", ",", "}">>,
      <<"I", "think", "greeting">>,
      <<"{", "}">> }

ExtractReplies ==
    { <<"{", "district:'Caauf_Giaays'", "business_type:'Bar'",
        "price_range:'Binh_Dan'", "}">>,
      <<"{", "district:'Caauf_Giaays'", "}">>,
      <<"{", "district:'Sao_Hoar'", "business_type:'cafe'",
        "price_range:'rer'", "}">>,
      <<"{", "district:'Sao_Hoar'", "business_type:'Bar'", "price_range:'rer'",
        "}">>,
      <<"{", "district:'tuwf_lieem'", "}">>,
      <<"{", "district:5", "}">>,
      <<"{", "district:null", "business_type:'Bar'", "}">>,
      <<"{", "district:'_caauf_giaays_'", "price_range:'binh_dan'", "}">>,
      <<"no", "json">>,
      <<"{", "}">> }

ReplyShort == <<"Gowij", "ys:", "Nhaf", "Hangf", "Sen", "owr", "Caauf", "Giaays">>

ReplyLong ==
    <<"IntroductionOf101Characters", "Nhaf", "Hangf", "Sen", "owr",
      "Caauf", "Goox", ".", "Xin", "looix,", "khoong", "timf", "thaays", "gif">>

\* a reply that misspells districts, in several letter cases
ReplyMisspelt ==
    <<"Gowij", "ys:", "CAAUF", "GOOX", "vaf", "caauf", "goox", "vaf", "Tay", "Ho">>

\* a reply that opens with a not-found phrase and goes on at length
ReplyNegativeFirst ==
    <<"Raats", "tieecs,", "tooi", "khoong", "timf", "thaays", "gif", ".",
      "IntroductionOf101Characters", "Nhaf", "Hangf", "Sen">>

\* a long reply without any not-found phrase
ReplyLongPlain ==
    <<"IntroductionOf101Characters", "Nhaf", "Hangf", "Sen", "", "">>

GenerateReplies ==
    { ReplyShort, ReplyLong, ReplyMisspelt, ReplyNegativeFirst, ReplyLongPlain,
      <<>> }

OutcomesOf(replies) ==
    { Outcome("ok", r) : r \in replies } \cup { Outcome("null", <<>>) }
    \cup FailOutcomes

IndexOutcomes == { "ok", "raise" }

\* venue lists the retriever can produce
VenueLists ==
    { search(c, <<>>, k, f, "ok").ret :
        c \in Collections, k \in (TopKs \ {0}) \cup {search_top_k},
        f \in CallerFilters }


(***************************************************************************)
(* State.  One pipeline instance serves one call at a time; the records    *)
(* cls, conv, ext, srch and gen hold what the component of that name did   *)
(* in the current top-level call.                                          *)
(***************************************************************************)
VARIABLES
    ollama_available,   \* RAGPipeline.ollama_available, set by __init__
    collection,         \* documents of the index, nearest-first on query
    op,                 \* the method the caller invoked
    pc,                 \* position inside answer()
    query, filters, top_k, return_sources,   \* arguments and locals
    cls,                \* _classify_query_with_llm
    conv,               \* _generate_conversational_response
    ext,                \* _extract_filters_from_query
    srch,               \* retrieve / search_engine.search
    gen,                \* generate
    result,             \* the dict answer() returned
    terminal,           \* how the call ended
    trace,              \* components invoked by the call, in order
    probe,              \* a pure function applied to inputs of its own
    calls               \* the answer() calls of concurrent host threads

vars == << ollama_available, collection, op, pc, query, filters, top_k,
           return_sources, cls, conv, ext, srch, gen, result, terminal, trace,
           probe, calls >>

NotCalledCls ==
    [called |-> FALSE, kind |-> "", response |-> PyNone, ret |-> EmptyDict,
     llm |-> 0]

NotCalledConv == [called |-> FALSE, kind |-> "", ret |-> PyNone, llm |-> 0]

NotCalledExt ==
    [called |-> FALSE, kind |-> "", response |-> PyNone, ret |-> NoFilters,
     llm |-> 0]

NotCalledSrch ==
    [called |-> FALSE, filters |-> NoFilters, raised |-> FALSE, ret |-> <<>>,
     queried |-> FALSE, where |-> NoQuery, n_results |-> 0]

NotCalledGen ==
    [called |-> FALSE, kind |-> "", venues |-> <<>>, response |-> PyNone,
     raised |-> FALSE, ret |-> PyNone, llm |-> 0]

\* what each component did, as a record of the state
DidClassify(r, o) ==
    [called |-> TRUE, kind |-> IF r.llm = 0 THEN "" ELSE o.kind,
     response |-> IF r.llm = 0 THEN PyNone ELSE llm_generate(o),
     ret |-> r.ret, llm |-> r.llm]

DidConverse(r, o) ==
    [called |-> TRUE, kind |-> IF r.llm = 0 THEN "" ELSE o.kind,
     ret |-> r.ret, llm |-> r.llm]

DidExtract(r, o) ==
    [called |-> TRUE, kind |-> IF r.llm = 0 THEN "" ELSE o.kind,
     response |-> IF r.llm = 0 THEN PyNone ELSE llm_generate(o),
     ret |-> r.ret, llm |-> r.llm]

DidSearch(r, f) ==
    [called |-> TRUE, filters |-> f, raised |-> r.raised, ret |-> r.ret,
     queried |-> r.queried, where |-> r.where, n_results |-> r.n_results]

\* response is the text the model transport handed to generate()
DidGenerate(r, venues, o) ==
    [called |-> TRUE, kind |-> IF r.llm = 0 THEN "" ELSE o.kind,
     venues |-> venues,
     response |-> IF r.llm = 0 THEN PyNone ELSE llm_generate(o),
     raised |-> r.raised, ret |-> r.ret, llm |-> r.llm]

\* the distances a probe of the score is made with: zero, tiny, moderate
\* and large ones
Distances ==
    { Float(0, 0) }
    \cup { Float(m, e) : m \in (2 ^ (MantissaBits - 1))..(2 ^ MantissaBits - 1),
                         e \in (0 - 2 * MantissaBits - 1)..(MantissaBits + 1) }

NoProbe ==
    [applied |-> FALSE, d1 |-> Float(0, 0), d2 |-> Float(0, 0),
     s1 |-> Float(0, 0), s2 |-> Float(0, 0)]

ProbeInputs ==
    { [applied |-> FALSE, d1 |-> x, d2 |-> y, s1 |-> Float(0, 0),
       s2 |-> Float(0, 0)] : x \in Distances, y \in Distances }

\* the pipeline after construction
InitPipeline ==
    /\ ollama_available \in BOOLEAN     \* check_connection() at construction
    /\ collection \in Collections
    /\ op = "none"
    /\ pc = "idle"
    /\ query = <<>>
    /\ filters = NoFilters
    /\ top_k = 0
    /\ return_sources = TRUE
    /\ cls = NotCalledCls
    /\ conv = NotCalledConv
    /\ ext = NotCalledExt
    /\ srch = NotCalledSrch
    /\ gen = NotCalledGen
    /\ result = NoResult
    /\ terminal = "none"
    /\ trace = <<>>
    /\ calls = [t \in Threads |-> IdleCall]

Init == InitPipeline /\ probe = NoProbe

\* a caller may invoke a method when no call is in progress
Ready == pc = "idle"

Fresh(name, q, f, k, rs) ==
    /\ op' = name
    /\ query' = q
    /\ filters' = f
    /\ top_k' = k
    /\ return_sources' = rs
    /\ result' = NoResult
    /\ UNCHANGED << ollama_available, probe, calls >>

(***************************************************************************)
(* answer(query, filters, top_k, return_sources), one action per component *)
(* it invokes.                                                             *)
(***************************************************************************)
AnswerCall ==
    /\ Ready
    /\ \E in \in AnswerInputs : Fresh("answer", in[1], in[2], in[3], in[4])
    /\ UNCHANGED collection
    /\ pc' = "classify"
    /\ cls' = NotCalledCls
    /\ conv' = NotCalledConv
    /\ ext' = NotCalledExt
    /\ srch' = NotCalledSrch
    /\ gen' = NotCalledGen
    /\ terminal' = "none"
    /\ trace' = <<>>

\* lines 548-558 and 567
AnswerClassify ==
    /\ pc = "classify"
    /\ \E o \in OutcomesOf(ClassifyReplies) :
         LET r == classify_query_with_llm(ollama_available, query, o)
         IN  /\ cls' = DidClassify(r, o)
             /\ pc' = after_classify(r.ret, filters)
    /\ trace' = Append(trace, "classify")
    /\ UNCHANGED << probe, calls, ollama_available, collection, op, query, filters, top_k,
                    return_sources, conv, ext, srch, gen, result, terminal >>

\* lines 554-564
AnswerConverse ==
    /\ pc = "converse"
    /\ \E o \in OutcomesOf(GenerateReplies) :
         LET response_type == Get(cls.ret, "response_type", JStr(<<"greeting">>))
             r == generate_conversational_response(ollama_available, query,
                                                   response_type, o)
         IN  /\ conv' = DidConverse(r, o)
             /\ result' = ZeroSources(query, r.ret, return_sources)
    /\ terminal' = "ConversationalReply"
    /\ pc' = "done"
    /\ trace' = Append(trace, "converse")
    /\ UNCHANGED << probe, calls, ollama_available, collection, op, query, filters, top_k,
                    return_sources, cls, ext, srch, gen >>

\* lines 566-584
AnswerExtract ==
    /\ pc = "extract"
    /\ \E o \in OutcomesOf(ExtractReplies) :
         LET r == extract_filters_from_query(ollama_available, query, o)
         IN  /\ ext' = DidExtract(r, o)
             /\ filters' = r.ret
             /\ IF is_invalid_marker(r.ret)
                THEN /\ result' = ZeroSources(query,
                            PyStr(InvalidDistrictMessage(
                                      r.ret["_invalid_district"])),
                            return_sources)
                     /\ terminal' = "InvalidLocationReply"
                     /\ pc' = "done"
                ELSE /\ pc' = "retrieve"
                     /\ UNCHANGED << result, terminal >>
    /\ trace' = Append(trace, "extract")
    /\ UNCHANGED << probe, calls, ollama_available, collection, op, query, top_k,
                    return_sources, cls, conv, srch, gen >>

\* lines 586-589; an exception of the index leaves answer() at once
AnswerRetrieve ==
    /\ pc = "retrieve"
    /\ \E idx \in IndexOutcomes :
         LET r == retrieve(collection, query, filters, top_k, idx)
         IN  /\ srch' = DidSearch(r, filters)
             /\ collection' = IndexAfter(collection, r)
             /\ IF r.raised
                THEN /\ terminal' = "raised"
                     /\ pc' = "done"
                ELSE /\ pc' = "generate"
                     /\ UNCHANGED terminal
    /\ trace' = Append(trace, "retrieve")
    /\ UNCHANGED << probe, calls, ollama_available, op, query, filters, top_k,
                    return_sources, cls, conv, ext, gen, result >>

\* lines 591-614
AnswerGenerate ==
    /\ pc = "generate"
    /\ \E o \in OutcomesOf(GenerateReplies) :
         IF ollama_available
         THEN LET r == generate(ollama_available, query, srch.ret, o)
                  answer == IF r.raised
                            THEN PyStr(format_search_only_response(srch.ret))
                            ELSE r.ret
              IN  /\ gen' = DidGenerate(r, srch.ret, o)
                  /\ result' = BuildResult(query, answer, srch.ret,
                                           return_sources)
         ELSE /\ gen' = gen
              /\ result' = BuildResult(query,
                               PyStr(format_search_only_response(srch.ret)),
                               srch.ret, return_sources)
    /\ terminal' = "Answered"
    /\ pc' = "done"
    /\ trace' = Append(trace, "generate")
    /\ UNCHANGED << probe, calls, ollama_available, collection, op, query, filters, top_k,
                    return_sources, cls, conv, ext, srch >>

(***************************************************************************)
(* chat(messages, filters, top_k): answer() for the last user message,     *)
(* with return_sources at its default.                                     *)
(***************************************************************************)
user_messages(messages) ==
    SelectSeq(messages, LAMBDA m : Get(m, "role", "") = "user")

ChatCall ==
    /\ Ready
    /\ \E in \in ChatInputs :
         /\ LET um == user_messages(in[1])
            IN  IF um = <<>>
                THEN /\ query' = <<>>
                     /\ result' = ChatError
                     /\ terminal' = "ChatError"
                     /\ pc' = "done"
                ELSE /\ query' = Get(um[Len(um)], "content", <<>>)
                     /\ result' = NoResult
                     /\ terminal' = "none"
                     /\ pc' = "classify"
         /\ filters' = in[2]
         /\ top_k' = in[3]
    /\ op' = "chat"
    /\ return_sources' = TRUE
    /\ UNCHANGED << probe, calls, ollama_available, collection >>
    /\ cls' = NotCalledCls
    /\ conv' = NotCalledConv
    /\ ext' = NotCalledExt
    /\ srch' = NotCalledSrch
    /\ gen' = NotCalledGen
    /\ trace' = <<>>

(***************************************************************************)
(* The components called directly by a host (the HTTP API calls            *)
(* retrieve() and search_engine.search() itself).                          *)
(***************************************************************************)
DirectCall(name, q, f, k) ==
    /\ Ready
    /\ Fresh(name, q, f, k, TRUE)
    /\ pc' = "done"
    /\ trace' = <<name>>

ClassifyCall ==
    /\ Ready
    /\ \E q \in Queries, o \in OutcomesOf(ClassifyReplies) :
           /\ DirectCall("classify", q, NoFilters, 0)
           /\ UNCHANGED collection
           /\ cls' = DidClassify(classify_query_with_llm(ollama_available, q, o), o)
           /\ conv' = NotCalledConv
           /\ ext' = NotCalledExt
           /\ srch' = NotCalledSrch
           /\ gen' = NotCalledGen
           /\ terminal' = "returned"

ExtractCall ==
    /\ Ready
    /\ \E q \in Queries, o \in OutcomesOf(ExtractReplies) :
           /\ DirectCall("extract", q, NoFilters, 0)
           /\ UNCHANGED collection
           /\ ext' = DidExtract(extract_filters_from_query(ollama_available, q, o), o)
           /\ cls' = NotCalledCls
           /\ conv' = NotCalledConv
           /\ srch' = NotCalledSrch
           /\ gen' = NotCalledGen
           /\ terminal' = "returned"

RetrieveCall ==
    /\ Ready
    /\ \E q \in CoreQueries, f \in CallerFilters, k \in TopKs, idx \in IndexOutcomes :
           /\ DirectCall("retrieve", q, f, k)
           /\ srch' = DidSearch(retrieve(collection, q, f, k, idx), f)
           /\ collection' = IndexAfter(collection, retrieve(collection, q, f, k, idx))
           /\ cls' = NotCalledCls
           /\ conv' = NotCalledConv
           /\ ext' = NotCalledExt
           /\ gen' = NotCalledGen
           /\ terminal' = IF idx = "raise" /\ district_filter_valid(f)
                          THEN "raised" ELSE "returned"

SearchCall ==
    /\ Ready
    /\ \E q \in CoreQueries, f \in CallerFilters, n \in TopKs \ {0},
          idx \in IndexOutcomes :
           /\ DirectCall("search", q, f, n)
           /\ srch' = DidSearch(search(collection, q, n, f, idx), f)
           /\ collection' = IndexAfter(collection, search(collection, q, n, f, idx))
           /\ cls' = NotCalledCls
           /\ conv' = NotCalledConv
           /\ ext' = NotCalledExt
           /\ gen' = NotCalledGen
           /\ terminal' = IF idx = "raise" /\ district_filter_valid(f)
                          THEN "raised" ELSE "returned"

GenerateCall ==
    /\ Ready
    /\ \E q \in CoreQueries, venues \in VenueLists, o \in OutcomesOf(GenerateReplies) :
           /\ DirectCall("generate", q, NoFilters, 0)
           /\ UNCHANGED collection
           /\ gen' = DidGenerate(generate(ollama_available, q, venues, o), venues, o)
           /\ cls' = NotCalledCls
           /\ conv' = NotCalledConv
           /\ ext' = NotCalledExt
           /\ srch' = NotCalledSrch
           /\ terminal' = IF generate(ollama_available, q, venues, o).raised
                          THEN "raised" ELSE "returned"

\* the host calls retrieve() once more with the arguments of the call that
\* has just returned
RetrieveAgain ==
    /\ pc = "done"
    /\ op = "retrieve"
    /\ Len(trace) <= MaxRepeat
    /\ \E idx \in IndexOutcomes :
         LET r == retrieve(collection, query, filters, top_k, idx)
         IN  /\ srch' = DidSearch(r, filters)
             /\ collection' = IndexAfter(collection, r)
             /\ terminal' = IF r.raised THEN "raised" ELSE "returned"
    /\ trace' = Append(trace, "retrieve")
    /\ UNCHANGED << probe, calls, ollama_available, op, pc, query, filters, top_k,
                    return_sources, cls, conv, ext, gen, result >>

\* the call returns to the host: its arguments, locals and result are
\* dropped, the fields of the pipeline stay
Return ==
    /\ pc = "done"
    /\ pc' = "idle"
    /\ op' = "none"
    /\ query' = <<>>
    /\ filters' = NoFilters
    /\ top_k' = 0
    /\ return_sources' = TRUE
    /\ cls' = NotCalledCls
    /\ conv' = NotCalledConv
    /\ ext' = NotCalledExt
    /\ srch' = NotCalledSrch
    /\ gen' = NotCalledGen
    /\ result' = NoResult
    /\ terminal' = "none"
    /\ trace' = <<>>
    /\ UNCHANGED << probe, calls, ollama_available, collection >>

Next ==
    \/ AnswerCall
    \/ AnswerClassify
    \/ AnswerConverse
    \/ AnswerExtract
    \/ AnswerRetrieve
    \/ AnswerGenerate
    \/ ChatCall
    \/ ClassifyCall
    \/ ExtractCall
    \/ RetrieveCall
    \/ RetrieveAgain
    \/ SearchCall
    \/ GenerateCall
    \/ Return

Spec == Init /\ [][Next]_vars

(***************************************************************************)
(* The similarity score alone: the score of line 148 applied to a pair of  *)
(* distances.                                                              *)
(***************************************************************************)
InitSimilarity == InitPipeline /\ probe \in ProbeInputs

ScoreProbe ==
    /\ ~probe.applied
    /\ probe' = [probe EXCEPT !.applied = TRUE,
                              !.s1 = similarity(probe.d1),
                              !.s2 = similarity(probe.d2)]
    /\ UNCHANGED << ollama_available, collection, op, pc, query, filters,
                    top_k, return_sources, cls, conv, ext, srch, gen, result,
                    terminal, trace, calls >>

NextSimilarity == ScoreProbe

SpecSimilarity == InitSimilarity /\ [][NextSimilarity]_vars

(***************************************************************************)
(* The district correction of generate() alone (lines 151-177), applied to *)
(* a reply and to the districts of the venues.                             *)
(***************************************************************************)
CorrectionWords == { "Tay", "Ho", "Hoang", "hoang", "Kim", "Sen" }

CorrectionTexts == UNION { [1..n -> CorrectionWords] : n \in 1..MaxTextLen }

CorrectionDistricts ==
    { { <<"Caauf", "Giaays">> }, { <<"Taay", "Hoof">> }, { <<"Hoanf", "Kieems">> },
      { <<"Taay", "Hoof">>, <<"Hoanf", "Kieems">> } }

CorrectionProbes ==
    { [applied |-> FALSE, text |-> t, districts |-> d, out |-> <<>>] :
        t \in CorrectionTexts, d \in CorrectionDistricts }

InitCorrection == InitPipeline /\ probe \in CorrectionProbes

CorrectProbe ==
    /\ ~probe.applied
    /\ probe' = [probe EXCEPT
                   !.applied = TRUE,
                   !.out = correct_districts(probe.text, Lower(probe.text),
                                             probe.districts,
                                             Len(district_corrections))]
    /\ UNCHANGED << ollama_available, collection, op, pc, query, filters,
                    top_k, return_sources, cls, conv, ext, srch, gen, result,
                    terminal, trace, calls >>

NextCorrection == CorrectProbe

SpecCorrection == InitCorrection /\ [][NextCorrection]_vars

(***************************************************************************)
(* Host threads calling answer() on one pipeline at the same time.  A step *)
(* of a call is one collaborator call with the code around it; the steps   *)
(* of different calls interleave in any order.                             *)
(***************************************************************************)
ConcurrentInputs ==
    { << <<"banj", "laf", "ai">>, NoFilters, 0, TRUE >>,
      << <<"nhaf", "hangf", "quaanj", "Sao", "Hoar">>, NoFilters, 0, TRUE >>,
      << <<"bar", "quaanj", "Caauf", "Giaays">>, ("business_type" :> <<"bar">>),
         1, FALSE >> }

\* what the collaborator called at position pc may answer
ConcurrentOutcomes(at) ==
    CASE at = "classify" ->
           { Outcome("ok", <<"{", "needs_search:false",
                             "response_type:general_question", "}">>),
             Outcome("timeout", <<>>) }
      [] at = "converse" -> { Outcome("ok", ReplyShort) }
      [] at = "extract" ->
           { Outcome("ok", <<"{", "district:'Caauf_Giaays'", "}">>) }
      [] at = "retrieve" -> { IndexOutcome(idx) : idx \in IndexOutcomes }
      [] at = "generate" -> { Outcome("ok", ReplyShort), Outcome("null", <<>>) }
      [] OTHER -> {}

InProgress(c) == c.pc \notin { "idle", "done" }

\* thread t takes the step of its call that stands at position at
ConcurrentStep(t, at) ==
    /\ calls[t].pc = at
    /\ \E o \in ConcurrentOutcomes(at) :
       \E c \in { answer_step(calls[t], ollama_available, collection, o) } :
         LET seen == \E u \in Threads \ {t} : InProgress(calls[u])
         IN  /\ calls' = [calls EXCEPT
                            ![t] = [c EXCEPT !.overlapped = @ \/ seen]]
             /\ ollama_available' =
                    IF c.heard[Len(c.heard)] = Silent
                    THEN ollama_available
                    ELSE available_after_call(ollama_available, o)
             /\ collection' =
                    IF at = "retrieve" /\ c.heard[Len(c.heard)] # Silent
                       /\ o.kind = "ok"
                    THEN index_after_query(collection)
                    ELSE collection
    /\ UNCHANGED << probe, op, pc, query, filters, top_k, return_sources, cls,
                    conv, ext, srch, gen, result, terminal, trace >>

ConcurrentCall ==
    \E t \in Threads :
        /\ calls[t].pc = "idle"
        /\ \E in \in ConcurrentInputs :
             calls' = [calls EXCEPT
                         ![t] = StartCall(in, ollama_available, collection)]
        /\ UNCHANGED << probe, ollama_available, collection, op, pc, query,
                        filters, top_k, return_sources, cls, conv, ext, srch,
                        gen, result, terminal, trace >>

ConcurrentClassify == \E t \in Threads : ConcurrentStep(t, "classify")

ConcurrentConverse == \E t \in Threads : ConcurrentStep(t, "converse")

ConcurrentExtract == \E t \in Threads : ConcurrentStep(t, "extract")

ConcurrentRetrieve == \E t \in Threads : ConcurrentStep(t, "retrieve")

ConcurrentGenerate == \E t \in Threads : ConcurrentStep(t, "generate")

\* the call of thread t has returned (or raised) and its frame is dropped
ConcurrentReturn ==
    \E t \in Threads :
        /\ calls[t].pc = "done"
        /\ calls' = [calls EXCEPT ![t] = IdleCall]
        /\ UNCHANGED << probe, ollama_available, collection, op, pc, query,
                        filters, top_k, return_sources, cls, conv, ext, srch,
                        gen, result, terminal, trace >>

NextConcurrent ==
    \/ ConcurrentCall
    \/ ConcurrentClassify
    \/ ConcurrentConverse
    \/ ConcurrentExtract
    \/ ConcurrentRetrieve
    \/ ConcurrentGenerate
    \/ ConcurrentReturn

SpecConcurrent == Init /\ [][NextConcurrent]_vars


(***************************************************************************)
(* Properties.                                                             *)
(***************************************************************************)
AnswerDone == op = "answer" /\ pc = "done"

\* answer() was called without caller filters: either the extractor ran, or
\* the local filters is still the argument
NoCallerFilters == ext.called \/ filters = NoFilters

response_type_of(classification) == Get(classification, "response_type", JNull)

\* queries [prefix] indicator phrase [suffix] whose phrase is / is not a
\* gazetteer district
ValidLocationQueries ==
    { p \o <<i>> \o d \o s :
        p \in Prefixes, i \in IndicatorWords,
        d \in { x \in DistrictPhrases : Lower(x) \in VALID_DISTRICTS },
        s \in Suffixes }

InvalidLocationQueries ==
    { p \o <<i>> \o d \o s :
        p \in Prefixes, i \in IndicatorWords,
        d \in { x \in DistrictPhrases : Lower(x) \notin VALID_DISTRICTS },
        s \in Suffixes }

\* C1: whatever the model transport and the index transport do, answer()
\* ends by returning a result record (query, answer text, sources, source
\* count); no exception of a collaborator reaches the caller.
C1_AnswerAlwaysReturnsResult ==
    AnswerDone =>
        /\ terminal \in { "ConversationalReply", "InvalidLocationReply", "Answered" }
        /\ result # NoResult
        /\ result.query = query
        /\ result.num_sources >= 0

\* C2: when retrieval found venues and the model call made for the answer
\* failed (error status, timeout, exception), the answer text is the
\* templated listing of exactly those venues, never the transport's error
\* text.
C2_FailedGenerationGivesTemplate ==
    ( /\ AnswerDone
      /\ terminal = "Answered"
      /\ srch.ret # <<>>
      /\ gen.called
      /\ gen.llm = 1
      /\ gen.kind \in { "http_error", "timeout", "exception" } )
    => result.answer = PyStr(format_search_only_response(srch.ret))

\* C3: a query whose phrase after "quận" / "district" is not a gazetteer
\* entry, answered without caller filters, ends in the invalid-district
\* message with source count 0 and without any call of the retriever,
\* whether the model is available or not.  (Stated for the runs in which
\* the classifier asked for retrieval and the index did not fail.)
C3_InvalidDistrictQueryRejected ==
    ( /\ AnswerDone /\ NoCallerFilters /\ query \in InvalidLocationQueries
      /\ needs_search(cls.ret) /\ ~srch.raised )
    => /\ terminal = "InvalidLocationReply"
       /\ result.num_sources = 0
       /\ ~srch.called

C5_EmptyVenuesNoModelCall ==
    ( gen.called /\ ollama_available /\ gen.venues = <<>> )
    => /\ gen.llm = 0
       /\ ~gen.raised
       /\ gen.ret = PyStr(GenerateNotFound)

C5_Witness ==
    /\ op = "generate"
    /\ gen.called
    /\ ollama_available
    /\ gen.venues = <<>>
    /\ gen.ret = PyStr(GenerateNotFound)

\* C6: a query holding a venue-intent keyword is classified
\* needs_search = true, kind restaurant_query, without a call to the model
\* transport, with the model available and with the model down.
C6_KeywordQueryNeedsRetrieval ==
    ( cls.called /\ has_restaurant_keyword(query) )
    => /\ needs_search(cls.ret)
       /\ Get(cls.ret, "needs_search", JNull) = JBool(TRUE)
       /\ response_type_of(cls.ret) = JStr(<<"restaurant_query">>)
       /\ cls.llm = 0

C6_Witness ==
    /\ op = "classify"
    /\ cls.called
    /\ ollama_available
    /\ has_restaurant_keyword(query)
    /\ ~is_pure_greeting(query)
    /\ cls.ret = RestaurantQuery
    /\ cls.llm = 0

\* C7: a query without venue keyword whose normalised text is a greeting
\* token is classified greeting by answer(), which returns no sources and
\* source count 0 and never calls the retriever, in every state of model
\* availability and without consulting the model.  (Stated for calls
\* without caller filters in which the index did not fail.)
C7_GreetingNeverRetrieves ==
    ( /\ AnswerDone /\ ~has_restaurant_keyword(query) /\ is_pure_greeting(query)
      /\ NoCallerFilters /\ ~srch.raised )
    => /\ response_type_of(cls.ret) = JStr(<<"greeting">>)
       /\ cls.llm = 0
       /\ terminal = "ConversationalReply"
       /\ result.num_sources = 0
       /\ result.sources = <<>>
       /\ ~srch.called

\* C8: a filter that reaches the vector index never holds a district that
\* fails validation: if the where clause of a query sent to the index names
\* a district, that district, normalised, is a gazetteer entry, in answer(),
\* retrieve() and search() alike, for caller filters and extracted ones.
C8_OnlyValidDistrictReachesIndex ==
    ( srch.queried /\ "district" \in DOMAIN srch.where.conds )
    => /\ Strip(Lower(srch.where.conds["district"]))
              \in SearchEngine_VALID_DISTRICTS
       /\ Strip(Lower(srch.where.conds["district"])) \in VALID_DISTRICTS

C8_Witness ==
    /\ op = "answer"
    /\ ext.called
    /\ srch.queried
    /\ "district" \in DOMAIN srch.where.conds
    /\ srch.where.conds["district"] = <<"Caauf", "Giaays">>

\* C9: with a caller filter whose district is not in the gazetteer, a venue
\* query is answered by the corrective invalid-district message (not by a
\* nothing-found answer), with source count 0 and without an exception.
C9_CallerInvalidDistrictCorrected ==
    ( /\ AnswerDone
      /\ cls.called /\ needs_search(cls.ret) /\ has_restaurant_keyword(query)
      /\ ~ext.called /\ ~srch.raised
      /\ "district" \in DOMAIN filters
      /\ Strip(Lower(filters["district"])) \notin VALID_DISTRICTS )
    => /\ terminal # "raised"
       /\ result.num_sources = 0
       /\ result.answer \in
              { PyStr(InvalidDistrictMessage(d)) :
                  d \in { filters["district"], Lower(filters["district"]),
                          Strip(Lower(filters["district"])) } }

\* C10: for a query whose phrase after the location indicator is a
\* gazetteer district, whatever words follow it, the Filter Extractor does
\* not return the invalid-location marker and answer() does not end in
\* InvalidLocationReply.
C10_ValidDistrictNeverShortCircuits ==
    ( ext.called /\ query \in ValidLocationQueries )
    => /\ "_invalid_district" \notin DOMAIN ext.ret
       /\ terminal # "InvalidLocationReply"

\* position of the numbered entry of venue i in a templated listing, 0 if
\* the listing has none
EntryAt(text, venues, i) == Find(text, <<ToString(i), ".">> \o venues[i].name)

\* C11: with the model unavailable, generate() makes no call to the model
\* transport, does not raise and returns the templated listing: the fixed
\* not-found line for an empty venue list, otherwise a header with the
\* number of venues followed by one numbered entry per venue, in the order
\* given.
C11_UnavailableGivesTemplate ==
    ( gen.called /\ ~ollama_available )
    => /\ gen.llm = 0
       /\ ~gen.raised
       /\ ~gen.ret.none
       /\ IF gen.venues = <<>>
          THEN gen.ret.toks = SearchOnlyNotFound
          ELSE /\ SubSeq(gen.ret.toks, 1, 7) =
                      <<"Timf", "thaays", ToString(Len(gen.venues)), "ddiaj",
                        "ddieemr", "phuf", "howpj:">>
               /\ \A i \in 1..Len(gen.venues) :
                      EntryAt(gen.ret.toks, gen.venues, i) > 7
               /\ \A i, j \in 1..Len(gen.venues) :
                      i < j => EntryAt(gen.ret.toks, gen.venues, i)
                                   < EntryAt(gen.ret.toks, gen.venues, j)
               /\ Find(gen.ret.toks,
                       <<ToString(Len(gen.venues) + 1), ".">>) = 0

C11_Witness ==
    /\ op = "generate"
    /\ gen.called
    /\ ~ollama_available
    /\ Len(gen.venues) >= 2
    /\ gen.llm = 0
    /\ EntryAt(gen.ret.toks, gen.venues, 2) > 0


\* number of places at which the phrase occurs in the text
CountOf(text, phrase) ==
    Cardinality({ i \in 1..(Len(text) - Len(phrase) + 1) :
                    SubSeq(text, i, i + Len(phrase) - 1) = phrase })

DistrictsOf(venues) == { venues[i].district : i \in 1..Len(venues) }

HasNegativePhrase(text) ==
    \E n \in 1..Len(negative_phrases) : Find(text, negative_phrases[n]) # 0

\* C12: for every entry (misspelling, correct name) of the table, when the
\* model output holds the misspelling in any letter case and the correct
\* name is a district of the retrieved venues, the text generate() returns
\* holds the misspelling in no letter case; each occurrence was replaced by
\* the correct name (counted where the later pass cut nothing off).
C12_MisspellingsCorrected ==
    ( gen.called /\ gen.llm = 1 /\ ~gen.raised /\ gen.venues # <<>> )
    => \A n \in 1..Len(district_corrections) :
          LET wrong == district_corrections[n][1]
              correct == district_corrections[n][2]
          IN  ( /\ Find(Lower(gen.response.toks), wrong) # 0
                /\ correct \in DistrictsOf(gen.venues) )
              => /\ Find(Lower(gen.ret.toks), wrong) = 0
                 /\ ~HasNegativePhrase(gen.response.toks)
                      => CountOf(gen.ret.toks, correct)
                            >= CountOf(Lower(gen.response.toks), wrong)

C12_Witness ==
    /\ gen.called
    /\ gen.llm = 1
    /\ gen.response = PyStr(ReplyMisspelt)
    /\ <<"Caauf", "Giaays">> \in DistrictsOf(gen.venues)
    /\ CountOf(gen.ret.toks, <<"Caauf", "Giaays">>) = 2
    /\ Find(gen.ret.toks, <<"Tay", "Ho">>) # 0

\* the model output holds no misspelling that the district pass corrects
NoCorrection(text, venues) ==
    \A n \in 1..Len(district_corrections) :
        \/ Find(Lower(text), district_corrections[n][1]) = 0
        \/ district_corrections[n][2] \notin DistrictsOf(venues)

\* position of the first occurrence of any not-found phrase, 0 if none
FirstNegative(text) ==
    LET at == { Find(text, negative_phrases[n]) :
                  n \in 1..Len(negative_phrases) } \ {0}
    IN  IF at = {} THEN 0 ELSE CHOOSE i \in at : \A k \in at : i <= k

\* C13: with a non-empty venue list, the contradiction pass of generate()
\* cuts the model output at the first not-found phrase only when text
\* introducing venues precedes that phrase; what it keeps is the part of
\* the output before the phrase (up to surrounding blanks), and an output
\* without such a phrase is returned unchanged.  (Stated for outputs the
\* district pass leaves alone.)
C13_TruncatesOnlyAfterIntroduction ==
    ( /\ gen.called /\ gen.llm = 1 /\ ~gen.raised /\ gen.venues # <<>>
      /\ NoCorrection(gen.response.toks, gen.venues) )
    => LET text == gen.response.toks
           at == FirstNegative(text)
           kept == SubSeq(text, 1, at - 1)
       IN  /\ at = 0 => gen.ret.toks = text
           /\ gen.ret.toks # text =>
                 /\ at > 1
                 /\ Strip(kept) # <<>>
                 /\ gen.ret.toks \in { kept, Strip(kept) }

\* the query holds a keyword of the off-topic set
IsOffTopic(q) ==
    \E keyword \in non_restaurant_keywords : Contains(Lower(q), keyword)

Returned == op \in { "answer", "chat" } /\ pc = "done" /\ terminal # "raised"

\* C15 as stated: every value returned by answer() and by chat() holds the
\* query, an answer, the source list and a source count, the count is the
\* length of the list, and in the Answered state the list is the
\* retriever's output in its order.
C15_EveryResultHasSources ==
    Returned
    => /\ { "query", "answer", "num_sources", "sources" }
              \subseteq result_keys(result)
       /\ result.sources_kind = "list"
       /\ result.num_sources = Len(result.sources)
       /\ terminal = "Answered" => result.sources = srch.ret

\* C15 amended: every value returned by answer() holds the query, an answer
\* and a source count.  When sources are requested (return_sources true,
\* the default and the only mode of chat()) it also holds the source list,
\* the count is the length of the list, and in the Answered state the list
\* is the retriever's output in its order.  With return_sources false the
\* list is None (conversational and invalid-location replies) or missing
\* (Answered) while the count is the number of venues retrieved.  chat()
\* without a user message returns an error field only.
C15_ResultShape ==
    Returned
    => IF terminal = "ChatError"
       THEN /\ op = "chat"
            /\ result_keys(result) = { "error" }
       ELSE /\ { "query", "answer", "num_sources" } \subseteq result_keys(result)
            /\ result.query = query
            /\ op = "chat" => return_sources
            /\ return_sources =>
                  /\ result.sources_kind = "list"
                  /\ result.num_sources = Len(result.sources)
                  /\ terminal = "Answered" => result.sources = srch.ret
            /\ ~return_sources =>
                  /\ result.sources = <<>>
                  /\ IF terminal = "Answered"
                     THEN /\ result.sources_kind = "absent"
                          /\ result.num_sources = Len(srch.ret)
                     ELSE /\ result.sources_kind = "None"
                          /\ result.num_sources = 0

C15_Witness ==
    /\ op = "chat"
    /\ pc = "done"
    /\ terminal = "Answered"
    /\ query = <<"bar", "quaanj", "Caauf", "Giaays">>
    /\ Len(result.sources) >= 2
    /\ result.sources = srch.ret
    /\ result.num_sources = Len(srch.ret)

\* C16: retrieve() never raises and returns the empty sequence when the
\* index holds no matching document and when the index cannot be reached;
\* answer() and chat() then go on as for zero results.
C16_RetrieveNeverRaises ==
    srch.called
    => /\ ~srch.raised
       /\ terminal # "raised"
       /\ ( srch.queried
            /\ SelectSeq(collection, LAMBDA doc : Matches(doc, srch.where)) = <<>> )
          => srch.ret = <<>>

\* C17: the filter retrieve() / search() sends to the index is no
\* constraint for an absent or empty filter set, the one key/value mapping
\* itself for a set of one key, and the $and of all key/value equalities
\* for a set of several keys; every venue returned matches every filter of
\* the set.
C17_ConjunctiveWhereClause ==
    ( srch.called /\ srch.queried )
    => /\ Cardinality(DOMAIN srch.filters) = 0 =>
             srch.where = [op |-> "None", conds |-> NoFilters]
       /\ Cardinality(DOMAIN srch.filters) = 1 =>
             srch.where = [op |-> "direct", conds |-> srch.filters]
       /\ Cardinality(DOMAIN srch.filters) > 1 =>
             srch.where = [op |-> "$and", conds |-> srch.filters]
       /\ \A i \in 1..Len(srch.ret) : \A k \in DOMAIN srch.filters :
             srch.ret[i][k] = srch.filters[k]

C17_Witness ==
    /\ srch.called
    /\ srch.queried
    /\ Cardinality(DOMAIN srch.filters) = 2
    /\ srch.where.op = "$and"
    /\ Len(srch.ret) = 1
    /\ srch.ret[1].name = <<"Karaoke", "Sao">>

C19_ScoreStrictlyDecreasing ==
    probe.applied
    => /\ float_lt(Float(0, 0), probe.s1)
       /\ float_le(probe.s1, FloatOfInt(1))
       /\ probe.d1 = Float(0, 0) => probe.s1 = FloatOfInt(1)
       /\ float_lt(probe.d1, probe.d2) => float_lt(probe.s2, probe.s1)

\* C19 amended: the score computed for a distance d >= 0 lies in (0,1], is
\* 1 at d = 0 and never increases with d: d1 < d2 implies
\* score(d1) >= score(d2); distances that differ by less than the rounding
\* of 1 + d get the same score.
C19_ScoreNonIncreasing ==
    probe.applied
    => /\ float_lt(Float(0, 0), probe.s1)
       /\ float_le(probe.s1, FloatOfInt(1))
       /\ probe.d1 = Float(0, 0) => probe.s1 = FloatOfInt(1)
       /\ float_lt(probe.d1, probe.d2) => float_le(probe.s2, probe.s1)

C19_Witness ==
    /\ probe.applied
    /\ float_lt(probe.d1, probe.d2)
    /\ float_lt(probe.s2, probe.s1)
    /\ float_lt(probe.s1, FloatOfInt(1))

\* the text holds no JSON object that json.loads accepts
NoParseableJson(response) ==
    \/ response.none
    \/ ~json_search(response.toks).found
    \/ json_loads(json_search(response.toks).inner).raised

\* C20: for a query with no venue keyword that is no greeting token, when
\* the model is unavailable, the model call fails (error status, timeout,
\* exception) or the reply of the model holds no parseable JSON object,
\* the classifier returns needs_search = true, kind restaurant_query.
C20_FailedClassificationDefaults ==
    ( /\ cls.called
      /\ ~has_restaurant_keyword(query) /\ ~is_pure_greeting(query)
      /\ \/ ~ollama_available
         \/ cls.llm = 1 /\ cls.kind \in { "http_error", "timeout", "exception" }
         \/ cls.llm = 1 /\ NoParseableJson(cls.response) )
    => /\ Get(cls.ret, "needs_search", JNull) = JBool(TRUE)
       /\ response_type_of(cls.ret) = JStr(<<"restaurant_query">>)

FilterKeys == { "district", "business_type", "price_range" }

PriceTiers == { <<"binh_dan">>, <<"trung_binh">>, <<"cao_cap">> }

\* a filter set whose fields all passed validation
ValidFilterSet(f) ==
    /\ DOMAIN f \subseteq FilterKeys
    /\ "district" \in DOMAIN f => Lower(f["district"]) \in VALID_DISTRICTS
    /\ "business_type" \in DOMAIN f => f["business_type"] \in BusinessTypes
    /\ "price_range" \in DOMAIN f => f["price_range"] \in PriceTiers

\* the JSON object of a reply that holds a parseable one
ParsedObject(response) == json_loads(json_search(response.toks).inner).obj

\* C21: whatever the model replies (valid JSON, partly invalid JSON, text
\* without JSON, null, or a failed call), the Filter Extractor returns
\* without raising; its result is the invalid-location marker alone or a
\* mapping over district, business_type and price_range whose district is
\* (case-insensitively) a gazetteer entry, whose category is in the enum
\* and whose price tier is canonical; a field of the reply is present only
\* as the value the reply gave it, and a reply without a parseable object
\* yields the empty filter set.
C21_ExtractedFiltersValid ==
    ext.called
    => /\ op = "extract" => terminal = "returned"
       /\ \/ /\ DOMAIN ext.ret = { "_invalid_district" }
             /\ ext.llm = 0
          \/ ValidFilterSet(ext.ret)
       /\ ( ext.llm = 1 /\ NoParseableJson(ext.response) ) => ext.ret = NoFilters
       /\ ( ext.llm = 1 /\ ~NoParseableJson(ext.response) )
          => \A k \in DOMAIN ext.ret :
                 /\ k \in DOMAIN ParsedObject(ext.response)
                 /\ ParsedObject(ext.response)[k].type = "str"
                 /\ LET given == Strip(ParsedObject(ext.response)[k].val)
                    IN  CASE k = "district" -> ext.ret[k] = given
                          [] k = "business_type" -> ext.ret[k] = Lower(given)
                          [] OTHER ->
                                 /\ Lower(given) \in DOMAIN price_map
                                 /\ ext.ret[k] = price_map[Lower(given)]

\* a reply with a valid category, an unknown district and an unknown price
\* tier gave the category alone
C21_Witness ==
    /\ ext.called
    /\ ext.llm = 1
    /\ ext.kind = "ok"
    /\ ParsedObject(ext.response) =
           ("district" :> JStr(<<"Sao", "Hoar">>))
           @@ ("business_type" :> JStr(<<"Bar">>))
           @@ ("price_range" :> JStr(<<"rer">>))
    /\ ext.ret = ("business_type" :> <<"bar">>)

\* C22: however the steps of two or more answer() calls on one pipeline
\* interleave, a call that has ended ended as it would have by itself on
\* the pipeline it was called on, given the same collaborator responses
\* (same result record, same way of ending); and while a call is in
\* progress or has just ended, the fields of the pipeline (availability
\* flag, index) are what they were when it was called.
C22_CallsDoNotInterfere ==
    \A t \in Threads :
        calls[t].pc # "idle"
        => /\ << ollama_available, collection >> = calls[t].at_start
           /\ calls[t].pc = "done"
              => \A alone \in
                         { run_alone(StartCall(calls[t].args,
                                               calls[t].at_start[1],
                                               calls[t].at_start[2]),
                                     calls[t].at_start, calls[t].heard) } :
                     /\ alone.pc = "done"
                     /\ alone.result = calls[t].result
                     /\ alone.terminal = calls[t].terminal

\* two calls that overlapped have both produced an answer from venues, for
\* different queries
C22_Witness ==
    /\ calls[1].pc = "done" /\ calls[2].pc = "done"
    /\ calls[1].overlapped /\ calls[2].overlapped
    /\ calls[1].terminal = "Answered" /\ calls[2].terminal = "Answered"
    /\ calls[1].query # calls[2].query
    /\ Len(calls[1].heard) = 4
    /\ calls[1].result.num_sources > 0

\* a call of answer() is under way or has ended (chat() without a user
\* message never calls it)
InAnswer == op \in { "answer", "chat" } /\ terminal # "ChatError"

\* the orders in which one answer() call can invoke its components
AnswerOrders ==
    { <<"classify", "converse">>,
      <<"classify", "extract">>,
      <<"classify", "extract", "retrieve", "generate">>,
      <<"classify", "retrieve", "generate">> }

IsPrefix(s, t) == Len(s) <= Len(t) /\ s = SubSeq(t, 1, Len(s))

NeedsRetrieval(classification) ==
    Truthy(Get(classification, "needs_search", JBool(TRUE)))

\* C23: in every execution of answer() the components run in one of the
\* orders classifier-conversation, classifier-extractor,
\* classifier-[extractor]-retriever-generator: the classifier first, the
\* extractor and the retriever only after a needs-retrieval
\* classification, the retriever at most once, the generator only after
\* the retriever has returned; the call stands at the component that
\* follows its trace, and when no collaborator raised it has ended exactly
\* when the trace is complete, in ConversationalReply after the
\* conversation, InvalidLocationReply after an extractor that gave the
\* marker, Answered after the generator.
C23_ComponentsRunInOrder ==
    InAnswer
    => /\ \E t \in AnswerOrders : IsPrefix(trace, t)
       /\ trace = <<>> <=> pc = "classify"
       /\ trace # <<>> => cls.called
       /\ ( \E i \in 1..Len(trace) : trace[i] \in { "extract", "retrieve" } )
          => NeedsRetrieval(cls.ret)
       /\ ( \E i \in 1..Len(trace) : trace[i] = "converse" )
          => ~NeedsRetrieval(cls.ret)
       /\ ( \E i \in 1..Len(trace) : trace[i] = "generate" )
          => srch.called /\ ~srch.raised
       /\ pc # "done" => /\ terminal = "none"
                         /\ pc = IF trace = <<>> THEN "classify"
                                 ELSE IF trace = <<"classify">>
                                 THEN after_classify(cls.ret, filters)
                                 ELSE IF trace[Len(trace)] = "extract"
                                 THEN "retrieve"
                                 ELSE "generate"
       /\ ( pc = "done" /\ ~srch.raised )
          => /\ terminal \in { "ConversationalReply", "InvalidLocationReply",
                               "Answered" }
             /\ terminal = "ConversationalReply"
                   <=> trace = <<"classify", "converse">>
             /\ terminal = "InvalidLocationReply"
                   <=> trace = <<"classify", "extract">>
             /\ terminal = "Answered" <=> trace[Len(trace)] = "generate"
             /\ result # NoResult

\* a call went through all four components and ended in Answered
C23_Witness ==
    /\ op = "answer"
    /\ pc = "done"
    /\ trace = <<"classify", "extract", "retrieve", "generate">>
    /\ terminal = "Answered"
    /\ ollama_available
    /\ gen.llm = 1

\* number of times the component named c appears in the trace
TimesRun(c) == Cardinality({ i \in 1..Len(trace) : trace[i] = c })

\* C24: within one answer() call the model transport is invoked at most
\* once by each of the classifier, the conversational reply, the Filter
\* Extractor and the answer generator, three times in total at most, and
\* the index is queried at most once; a model call that failed (error
\* status, timeout, exception, null reply) was made once and not again.
C24_NoRetries ==
    InAnswer
    => /\ cls.llm <= 1 /\ conv.llm <= 1 /\ ext.llm <= 1 /\ gen.llm <= 1
       /\ cls.llm + conv.llm + ext.llm + gen.llm <= 3
       /\ TimesRun("retrieve") <= 1
       /\ srch.queried => TimesRun("retrieve") = 1
       /\ \A c \in { cls, conv, ext, gen } :
              c.kind \in { "http_error", "timeout", "exception", "null" }
              => c.llm = 1

\* three model calls were made, the last one timed out and the call ended
\* with the text the failed call produced
C24_Witness ==
    /\ op = "answer"
    /\ pc = "done"
    /\ cls.llm = 1 /\ ext.llm = 1 /\ gen.llm = 1
    /\ gen.kind = "timeout"
    /\ srch.queried
    /\ terminal = "Answered"

\* C25: in answer(), when the classification needs retrieval and the
\* caller supplied filters, the next component is the retriever, not the
\* Filter Extractor; without caller filters it is the extractor, and a
\* retriever that follows it is given exactly the extractor's output (the
\* empty set included); no step but the extractor changes the filters; the
\* retriever is called with the filters as they stand and asks the index
\* for the caller's top_k results when one was given, else for the
\* configured default of 5.
C25_FiltersAndCountPassedOn ==
    [][ InAnswer
        => /\ ( pc = "classify" /\ pc' # "classify" /\ NeedsRetrieval(cls'.ret) )
              => /\ pc' = IF filters # NoFilters THEN "retrieve" ELSE "extract"
                 /\ ~ext'.called
           /\ pc # "extract" => filters' = filters \/ pc' \in { "idle", "classify" }
           /\ ( pc = "extract" /\ pc' # "extract" )
              => /\ ext'.called
                 /\ filters' = ext'.ret
                 /\ cls' = cls
           /\ ( pc = "retrieve" /\ pc' # "retrieve" )
              => /\ srch'.called
                 /\ srch'.filters = filters
                 /\ ext.called => srch'.filters = ext.ret
                 /\ srch'.n_results = IF top_k # 0 THEN top_k ELSE 5
                 /\ <<filters', top_k'>> = <<filters, top_k>>
      ]_vars

\* the retriever was given the caller's filter and the caller's count, and
\* the extractor did not run
C25_Witness ==
    /\ op = "answer"
    /\ cls.called /\ srch.called /\ ~ext.called
    /\ srch.filters = ("business_type" :> <<"bar">>)
    /\ srch.where.op = "direct"
    /\ top_k = 2 /\ srch.n_results = 2
    /\ Len(srch.ret) = 1

\* the entries of the correction table whose misspelling occurs in the text
EntriesIn(text) ==
    { n \in 1..Len(district_corrections) :
        Occurs(Lower(text), district_corrections[n][1]) }

\* C26: the district correction changes the reply only for table entries
\* whose correct name is a district of the venues: a misspelling that
\* occurs in the reply and whose correct district is not among the venues
\* still occurs in the corrected reply, and a reply in which no entry with
\* a district of the venues occurs is returned as it is.
C26_CorrectionLeavesOtherTextAlone ==
    probe.applied
    => /\ \A n \in EntriesIn(probe.text) :
              district_corrections[n][2] \notin probe.districts
              => n \in EntriesIn(probe.out)
       /\ ( \A n \in EntriesIn(probe.text) :
                district_corrections[n][2] \notin probe.districts )
          => probe.out = probe.text

\* the document of the index with the given id
DocOf(id) == CHOOSE i \in 1..Len(collection) : collection[i].id = id

\* C27: the venues a search returned are documents of the index, each
\* once, nearest first (by the distances of the index, which it reports
\* in non-decreasing order); the i-th venue carries rank i; there are at
\* most as many as were asked for (the caller's top_k, else the default);
\* and the similarity scores do not increase along the sequence.
C27_RankedMostSimilarFirst ==
    ( srch.called /\ ~srch.raised )
    => LET ret == srch.ret
       IN  /\ Len(ret) <= srch.n_results
           /\ op \in { "retrieve", "answer", "chat" }
              => srch.n_results = IF top_k # 0 THEN top_k ELSE search_top_k
           /\ \A i \in 1..Len(ret) :
                  /\ ret[i].rank = i
                  /\ \E j \in 1..Len(collection) : collection[j].id = ret[i].id
           /\ \A i, j \in 1..Len(ret) :
                  i < j => /\ ret[i].id # ret[j].id
                           /\ collection[DocOf(ret[i].id)].distance
                                 <= collection[DocOf(ret[j].id)].distance
                           /\ float_le(ret[j].similarity_score,
                                       ret[i].similarity_score)

\* retrieve(query, None, 2) on an index of three venues returned the two
\* nearest, the nearer one first with the higher score
C27_Witness ==
    /\ op = "retrieve"
    /\ srch.called /\ srch.queried /\ ~srch.raised
    /\ srch.filters = NoFilters
    /\ top_k = 2
    /\ Len(srch.ret) = 2
    /\ Len(collection) = 3
    /\ float_lt(srch.ret[2].similarity_score, srch.ret[1].similarity_score)

\* the kinds of the classification prompt (lines 250-252) and off_topic
ClassificationKinds ==
    { JStr(<<"restaurant_query">>), JStr(<<"greeting">>),
      JStr(<<"general_question">>), JStr(<<"off_topic">>) }

\* C28: every classification the classifier returned (by the keyword
\* rule, the greeting rule, the model's JSON verdict or the fallback) has
\* a boolean needs_search flag and a response_type of the fixed set, and
\* answer() went on to the conversational reply exactly when the flag is
\* false.
C28_ClassificationWellFormed ==
    cls.called
    => /\ "needs_search" \in DOMAIN cls.ret
       /\ Get(cls.ret, "needs_search", JNull).type = "bool"
       /\ response_type_of(cls.ret) \in ClassificationKinds
       /\ ( InAnswer /\ Len(trace) >= 2 )
          => ( trace[2] = "converse"
                 <=> Get(cls.ret, "needs_search", JNull) = JBool(FALSE) )

\* C29: a district that the Filter Extractor put into its output (it
\* passed the pre-check of the query and the validation of the reply) is
\* accepted by the district validation of the search engine: the
\* retriever that is given the extractor's output queries the index and
\* does not return the empty result of an invalid district.
C29_ExtractedDistrictReachesIndex ==
    ( InAnswer /\ ext.called /\ "district" \in DOMAIN ext.ret /\ srch.called )
    => /\ srch.filters = ext.ret
       /\ Strip(Lower(ext.ret["district"])) \in SearchEngine_VALID_DISTRICTS
       /\ srch.queried

\* C30: when generate() was given venues and the model returned a text
\* that is not empty, the answer generate() returns after the district
\* correction and the not-found suppression is not empty.
C30_AnswerStaysNonEmpty ==
    ( /\ gen.called /\ gen.llm = 1 /\ ~gen.raised
      /\ gen.venues # <<>>
      /\ ~gen.response.none /\ gen.response.toks # <<>> )
    => /\ ~gen.ret.none
       /\ gen.ret.toks # <<>>

=============================================================================
